---- MODULE Spec2Model ----
(***************************************************************************)
(* A model of CVFS (src/VFS.hpp): the in-memory node tree of CVFS, the     *)
(* chunked content of CVFSFile, and the CVFSFileStream handle.             *)
(*                                                                         *)
(* Strings are sequences of one-character strings.  A size_t is an         *)
(* integer that stands for its value modulo 2^64: a negative integer -k    *)
(* stands for 2^64 - k (std::string::npos is -1), sums and differences are *)
(* the integer ones, and the unsigned order is ULess.  Time stamps         *)
(* (m_Created, m_Accessed, m_Modified) are not modelled.                   *)
(***************************************************************************)
EXTENDS Integers, Sequences, FiniteSets, TLC

VARIABLES
    heap,       \* the CVFSNode objects, by address; heap[1] is m_Root
    streams,    \* the live CVFSFileStream objects
    calls,      \* the calls under observation: arguments, outcome, state before
    fault,      \* "none", or how the process left defined behaviour
    chunkSize,  \* the value of CHUNK_SIZE the program was built with
    threads,    \* threads[t]: where thread t is in the call it makes
    mutex       \* mutex[n]: the thread that holds m_UpdateLock of node n, or 0

vars == <<heap, streams, calls, fault, chunkSize, threads, mutex>>

---------------------------------------------------------------------------
(* Bounds of the model *)

\* number of addresses for CVFSNode objects, the root's included
MaxNodes == 6
\* number of CVFSNode objects alive at once in Spec, the root included
TreeNodes == 4
\* number of CVFSFileStream objects alive at once
MaxStreams == 2
\* capacity of a chunk in bytes: CHUNK_SIZE of src/VFS.hpp:39 is 4096; the
\* code only ever compares against it, divides by it and multiplies by it,
\* so the model scales it down to keep the byte strings enumerable.
\* SmallChunk is the capacity where content is to spread over chunks,
\* LineChunk the capacity where several lines are to fit in one chunk.
SmallChunk == 2
LineChunk == 5
\* largest byte count handed to one Write or Read
MaxLen == 3
\* largest m_Size a file may reach before Write is no longer offered
MaxSize == 4

(* Program constants *)

\* #define CHUNK_SIZE
CHUNK_SIZE == chunkSize

\* Clear() reserves this many chunks
ClearChunks == 4

---------------------------------------------------------------------------
(* std::string and size_t *)

npos == 0 - 1

\* a < b for size_t
ULess(a, b) == IF (a < 0) = (b < 0) THEN a < b ELSE b < 0

\* the code of a character (ASCII)
Ord(c) == CASE c = "/" -> 47 [] c = "a" -> 97 [] c = "b" -> 98 [] c = "c" -> 99

\* std::string operator<
RECURSIVE StrLess(_, _)
StrLess(s, t) ==
    IF t = <<>> THEN FALSE
    ELSE IF s = <<>> THEN TRUE
    ELSE IF Ord(Head(s)) # Ord(Head(t)) THEN Ord(Head(s)) < Ord(Head(t))
    ELSE StrLess(Tail(s), Tail(t))

\* std::string::find(ch, start): 0-based index or npos
Find(s, ch, start) ==
    LET hits == {i \in 0..(Len(s) - 1) : ~ULess(i, start) /\ s[i + 1] = ch}
    IN  IF hits = {} THEN npos
        ELSE CHOOSE i \in hits : \A j \in hits : i <= j

\* std::string::find_last_of(ch, pos): the last index <= pos, or npos
FindLastOf(s, ch, pos) ==
    LET hits == {i \in 0..(Len(s) - 1) : ~ULess(pos, i) /\ s[i + 1] = ch}
    IN  IF hits = {} THEN npos
        ELSE CHOOSE i \in hits : \A j \in hits : j <= i

\* std::string::substr(pos, count), for pos <= size()
Substr(s, pos, count) ==
    LET avail == Len(s) - pos
        n == IF ULess(count, avail) THEN count ELSE avail
    IN  SubSeq(s, pos + 1, pos + n)

---------------------------------------------------------------------------
(* Path helpers of CVFS *)

RECURSIVE SplitLoop(_, _, _)
SplitLoop(Path, Pos, Ret) ==
    IF Pos = npos THEN Ret
    ELSE LET Start == Pos
             P1 == Find(Path, "/", Start)
             Dir == Substr(Path, Start, P1 - Start)
             Ret1 == IF Dir # <<>> THEN Append(Ret, Dir) ELSE Ret
             P2 == IF P1 # npos THEN P1 + 1 ELSE P1
         IN  SplitLoop(Path, P2, Ret1)

SplitPath(Path) ==
    SplitLoop(Path, IF Path # <<>> /\ Path[1] = "/" THEN 1 ELSE 0, <<>>)

ExtractPath(Path) ==
    LET P0 == FindLastOf(Path, "/", npos)
        Pos == IF P0 = Len(Path) - 1 THEN FindLastOf(Path, "/", P0 - 1) ELSE P0
    IN  Substr(Path, 0, Pos)

ExtractName(Path) ==
    LET P0 == FindLastOf(Path, "/", npos)
        trail == P0 = Len(Path) - 1
        End == IF trail THEN P0 - 1 ELSE npos
        Pos == IF trail THEN FindLastOf(Path, "/", P0 - 1) ELSE P0
    IN  Substr(Path, Pos + 1, End - Pos)

---------------------------------------------------------------------------
(* CVFSNode objects.  A node is named by its index in heap; Null is the    *)
(* empty shared_ptr.                                                       *)

Null == 0
Root == 1

\* CVFSDir(Name): an empty directory
NewDir(Name) ==
    [live |-> TRUE, name |-> Name, isDir |-> TRUE, childs |-> <<>>,
     size |-> 0, data |-> <<>>]

\* CVFSFile(Name): m_Size = 0 and no chunk
NewFile(Name) ==
    [live |-> TRUE, name |-> Name, isDir |-> FALSE, childs |-> <<>>,
     size |-> 0, data |-> <<>>]

\* an address that holds no object
FreeNode ==
    [live |-> FALSE, name |-> <<>>, isDir |-> FALSE, childs |-> <<>>,
     size |-> 0, data |-> <<>>]

Live(h) == {n \in 1..Len(h) : h[n].live}

\* operator new: the lowest free address, Null when the model has none left
Alloc(h) ==
    IF \A n \in 1..Len(h) : h[n].live THEN Null
    ELSE CHOOSE n \in 1..Len(h) : ~h[n].live /\ \A m \in 1..(n - 1) : h[m].live

\* VFSNode, VFSFile and VFSDir are std::shared_ptr: an object that neither
\* m_Root, nor a vector m_Childs, nor a stream's m_File refers to is
\* destroyed, and its own m_Childs with it.  Objects on a cycle stay.
Referenced(h, strs, n) ==
    \/ n = Root
    \/ \E m \in Live(h) : \E i \in 1..Len(h[m].childs) : h[m].childs[i] = n
    \/ \E i \in 1..Len(strs) : strs[i].file = n

RECURSIVE Release(_, _)
Release(h, strs) ==
    LET dead == {n \in Live(h) : ~Referenced(h, strs, n)}
    IN  IF dead = {} THEN h
        ELSE Release([n \in 1..Len(h) |-> IF n \in dead THEN FreeNode ELSE h[n]], strs)

\* the sequence s with x put before 0-based position pos (vector::insert)
InsertAt(s, pos, x) == SubSeq(s, 1, pos) \o <<x>> \o SubSeq(s, pos + 1, Len(s))

\* the sequence s without 0-based position pos (vector::erase)
EraseAt(s, pos) == SubSeq(s, 1, pos) \o SubSeq(s, pos + 2, Len(s))

\* CVFSDir::Search(Name, Start, End): the binary search; childs is m_Childs
RECURSIVE SearchPos(_, _, _, _, _)
SearchPos(h, childs, Name, Start, End) ==
    IF ULess(End, Start) \/ End = npos THEN 0
    ELSE IF End = Start THEN End
    ELSE LET Middle == Start + ((End - Start) \div 2)
             PosName == h[childs[Middle + 1]].name
         IN  IF PosName = Name THEN Middle
             ELSE IF StrLess(PosName, Name)
                  THEN SearchPos(h, childs, Name, Middle + 1, End)
             ELSE IF StrLess(Name, PosName)
                  THEN SearchPos(h, childs, Name, Start, Middle - 1)
             ELSE Middle

\* a Search that looks at the first child only
SearchFirst(h, d, Name) ==
    LET childs == h[d].childs
    IN  IF childs # <<>> /\ h[childs[1]].name = Name THEN childs[1] ELSE Null

\* CVFSDir::Search(Name): the child of d named Name, or Null
Search(h, d, Name) ==
    LET childs == h[d].childs
    IN  IF childs # <<>>
        THEN LET Pos == SearchPos(h, childs, Name, 0, Len(childs) - 1)
             IN  IF h[childs[Pos + 1]].name = Name THEN childs[Pos + 1] ELSE Null
        ELSE Null

\* the position InternalAppendChild's loop stops at
RECURSIVE InsertPos(_, _, _, _)
InsertPos(h, childs, c, Pos) ==
    IF Pos < Len(childs) /\ ~StrLess(h[c].name, h[childs[Pos + 1]].name)
    THEN InsertPos(h, childs, c, Pos + 1)
    ELSE Pos

\* an InternalAppendChild that adds Child at the end (push_back)
InternalAppendChildAtEnd(h, d, c) == [h EXCEPT ![d].childs = Append(@, c)]

\* CVFSDir::InternalAppendChild(Child)
InternalAppendChild(h, d, c) ==
    [h EXCEPT ![d].childs = InsertAt(@, InsertPos(h, @, c, 0), c)]

\* AppendChild holds d's m_UpdateLock while InternalAppendChild calls Name()
\* on Child and on the children it is compared with; Name() takes the lock
\* of the node it is called on, and std::mutex is not recursive
AppendBlocks(h, d, c) ==
    LET childs == h[d].childs
        stop == InsertPos(h, childs, c, 0)
    IN  /\ childs # <<>>
        /\ \/ c = d
           \/ \E i \in 1..Len(childs) : i <= stop + 1 /\ childs[i] = d

\* CVFSDir::AppendChild(Child)
AppendChild(h, d, c) == InternalAppendChild(h, d, c)

\* RenameChild and RemoveChild read m_Childs[Pos] before looking at the
\* name: on a directory without children this reads past the vector
ChildIndexOutOfRange(h, d) == h[d].childs = <<>>

\* CVFSDir::RenameChild(Name, NewName), for a directory with children
RenameChild(h, d, Name, NewName) ==
    LET childs == h[d].childs
        Pos == SearchPos(h, childs, Name, 0, Len(childs) - 1)
        Child == childs[Pos + 1]
    IN  IF h[Child].name = Name
        THEN LET h1 == [h EXCEPT ![d].childs = EraseAt(@, Pos)]
                 h2 == [h1 EXCEPT ![Child].name = NewName]
             IN  InternalAppendChild(h2, d, Child)
        ELSE h

\* a RemoveChild that erases nothing
RemoveChildKeeps(h, d, Name) == h

\* CVFSDir::RemoveChild(Name), for a directory with children
RemoveChild(h, d, Name) ==
    LET childs == h[d].childs
        Pos == SearchPos(h, childs, Name, 0, Len(childs) - 1)
        Child == childs[Pos + 1]
    IN  IF h[Child].name = Name
        THEN [h EXCEPT ![d].childs = EraseAt(@, Pos)]
        ELSE h

\* a copy constructor of CVFSDir that copies the vector of pointers
CopyChildsShared(h, src, i, acc) == [heap |-> h, ids |-> src, ok |-> TRUE]

\* CVFSFile::Copy and CVFSDir::Copy: the copy constructors.  The result is
\* the heap with the new objects and the address of the copy of n (Null
\* when the model has no address left).
RECURSIVE CopyNode(_, _)
RECURSIVE CopyChilds(_, _, _, _)
CopyChilds(h, src, i, acc) ==
    IF i > Len(src) THEN [heap |-> h, ids |-> acc, ok |-> TRUE]
    ELSE LET r == CopyNode(h, src[i])
         IN  IF r.id = Null THEN [heap |-> h, ids |-> acc, ok |-> FALSE]
             ELSE CopyChilds(r.heap, src, i + 1, Append(acc, r.id))

CopyNode(h, n) ==
    LET id == Alloc(h)
    IN  IF id = Null THEN [heap |-> h, id |-> Null]
        ELSE IF h[n].isDir
        THEN LET h0 == [h EXCEPT ![id] = [h[n] EXCEPT !.childs = <<>>]]
                 r == CopyChilds(h0, h[n].childs, 1, <<>>)
             IN  IF r.ok THEN [heap |-> [r.heap EXCEPT ![id].childs = r.ids], id |-> id]
                 ELSE [heap |-> h, id |-> Null]
        ELSE [heap |-> [h EXCEPT ![id] = h[n]], id |-> id]

---------------------------------------------------------------------------
(* CVFSFile: m_Size (size) and m_Data (data), a vector of chunks.  Data of *)
(* a chunk holds the bytes written into its buffer so far, from offset 0;  *)
(* the buffer comes from new char[Size], so the cells after them are       *)
(* uninitialised.                                                          *)

LF == "\n"
NUL == "nul"

\* the byte values the model writes
Bytes == {"x", LF}

\* what memory outside the initialised bytes may hold, one value per byte read
JunkSet == [1..MaxLen -> Bytes]
NoJunk == [i \in 1..MaxLen |-> "x"]

\* SChunk(): Size = CHUNK_SIZE, Filled = 0, Data = new char[Size]
NewChunk == [Filled |-> 0, Data |-> <<>>]

\* CVFSFile::ReserveChunks(Count)
ReserveChunks(data, Count) == data \o [i \in 1..Count |-> NewChunk]

\* CVFSFile::Clear(): m_Data.clear(); ReserveChunks(4)
Clear(f) == [f EXCEPT !.data = ReserveChunks(<<>>, ClearChunks)]

\* The loop of CVFSFile::Write.  Src is the memory at Data: the Size bytes of
\* the caller followed by whatever lies behind them.  fault is "ub" when
\* m_Data[ChunkPos] is past the end of the vector.
RECURSIVE WriteLoop(_, _, _, _, _)
WriteLoop(f, Src, Size, Written, ChunkPos) ==
    IF ~(Written < Size)
    THEN [file |-> f, ret |-> Written, fault |-> "none"]
    ELSE IF ChunkPos >= Len(f.data)
    THEN [file |-> f, ret |-> Written, fault |-> "ub"]
    ELSE LET c == f.data[ChunkPos + 1]
             Free == CHUNK_SIZE - c.Filled
             CopyCount == IF Size >= Free THEN Free ELSE Size
             d == [Filled |-> c.Filled + CopyCount,
                   Data |-> c.Data \o SubSeq(Src, Written + 1, Written + CopyCount)]
             f1 == [f EXCEPT !.data[ChunkPos + 1] = d, !.size = @ + CopyCount]
         IN  WriteLoop(f1, Src, Size, Written + CopyCount, ChunkPos + 1)

\* a Write that starts at the beginning of the file
FileWriteOver(f, Data, junk) ==
    WriteLoop([f EXCEPT !.data = ReserveChunks(<<>>, ClearChunks), !.size = 0],
              Data \o junk, Len(Data), 0, 0)

\* CVFSFile::Write(Data, Size); junk is the memory behind the Size bytes
FileWrite(f, Data, junk) ==
    LET Size == Len(Data)
        ChunkCount == (Size \div CHUNK_SIZE) + (IF Size % CHUNK_SIZE > 0 THEN 1 ELSE 0)
        f1 == IF f.size = Len(f.data) * CHUNK_SIZE
              THEN [f EXCEPT !.data = ReserveChunks(@, ChunkCount)]
              ELSE f
    IN  WriteLoop(f1, Data \o junk, Size, 0, f.size \div CHUNK_SIZE)

\* the byte memcpy reads at offset k of chunk c's buffer: initialised, or
\* whatever is there (also before and behind the buffer)
CellAt(c, k, j) == IF 0 <= k /\ k < Len(c.Data) THEN c.Data[k + 1] ELSE j

\* The loop of CVFSFile::Read.  Buf is what has been stored at Buf so far.
\* fault is "ub" when memcpy stores behind the Size bytes of Buf.
RECURSIVE ReadLoop(_, _, _, _, _, _, _)
ReadLoop(f, Size, CurPos, ChunkPos, Readed, Buf, junk) ==
    IF ~(Readed < Size) \/ ChunkPos >= Len(f.data)
    THEN [ret |-> Readed, buf |-> Buf, fault |-> "none"]
    ELSE LET c == f.data[ChunkPos + 1]
             Pos == CurPos - ChunkPos * CHUNK_SIZE
             Diff == c.Filled - Pos
             CopyCount == IF ULess(Size, Diff) THEN Size ELSE Diff
         IN  IF CopyCount <= 0
             THEN [ret |-> Readed, buf |-> Buf, fault |-> "none"]
             ELSE IF Readed + CopyCount > Size
             THEN [ret |-> Readed, buf |-> Buf, fault |-> "ub"]
             ELSE LET got == [i \in 1..CopyCount |->
                                 CellAt(c, Pos + i - 1, junk[((Readed + i - 1) % MaxLen) + 1])]
                  IN  ReadLoop(f, Size, CurPos, ChunkPos + 1,
                               Readed + CopyCount, Buf \o got, junk)

\* CVFSFile::Read(Buf, Size, CurPos)
FileRead(f, Size, CurPos, junk) ==
    ReadLoop(f, Size, CurPos, CurPos \div CHUNK_SIZE, 0, <<>>, junk)

\* does Write (Read) look at memory it was not given?
WriteNeedsJunk(f, Data) == FileWrite(f, Data, NoJunk).ret > Len(Data)
ReadNeedsJunk(f, Size, CurPos) ==
    \E j \in JunkSet : FileRead(f, Size, CurPos, j) # FileRead(f, Size, CurPos, NoJunk)

---------------------------------------------------------------------------
(* The facade CVFS.  An operation yields the heap it leaves and res: "OK", *)
(* the VFSError it throws, or how it leaves defined behaviour: "SEGV" (a   *)
(* member call through an empty shared_ptr), "UB" (an object used as a     *)
(* type it is not, an index past a vector) or "DEADLOCK" (a std::mutex     *)
(* locked again by the thread that holds it).  res = "NO_ADDRESS" says     *)
(* that the call needs more objects than MaxNodes; the model does not      *)
(* offer such a call.                                                      *)

Faults == {"SEGV", "UB", "DEADLOCK"}

\* enum class VFSError: what a CVFSException carries
VFSErrors ==
    {"OUT_OF_MEM", "CANT_CREATE_DIR", "CANT_CREATE_FILE", "CANT_OPEN_FILE",
     "NODE_ALREADY_EXISTS", "NODE_DOESNT_EXISTS", "NODE_IS_FILE", "NODE_IS_DIR"}

RECURSIVE GetNodeLoop(_, _, _, _, _)
GetNodeLoop(h, Dirs, i, CurDir, Ret) ==
    IF i >= Len(Dirs) THEN Ret
    ELSE LET node == Search(h, CurDir, Dirs[i + 1])
         IN  IF node # Null /\ (h[node].isDir \/ i = Len(Dirs) - 1)
             THEN GetNodeLoop(h, Dirs, i + 1, node, node)
             ELSE Null

\* CVFS::GetNodeInfo(Path)
GetNodeInfo(h, Path) ==
    GetNodeLoop(h, SplitPath(Path), 0, Root, IF Path = <<"/">> THEN Root ELSE Null)

\* CVFS::NodeExists(Path)
NodeExists(h, Path) == GetNodeInfo(h, Path) # Null

\* CVFS::List(Path): the children, or the error thrown
List(h, Path) ==
    LET node == GetNodeInfo(h, Path)
    IN  IF node # Null /\ h[node].isDir THEN [res |-> "OK", out |-> h[node].childs]
        ELSE IF node # Null /\ ~h[node].isDir THEN [res |-> "NODE_IS_FILE", out |-> <<>>]
        ELSE [res |-> "OK", out |-> <<>>]

RECURSIVE CreateDirLoop(_, _, _, _, _)
CreateDirLoop(h, Dirs, i, CurDir, Force) ==
    IF i >= Len(Dirs) THEN [heap |-> h, res |-> "OK"]
    ELSE LET Dir == Dirs[i + 1]
             node == Search(h, CurDir, Dir)
         IN  IF node = Null /\ (Force \/ i = Len(Dirs) - 1)
             THEN LET tmp == Alloc(h)
                      h1 == AppendChild([h EXCEPT ![tmp] = NewDir(Dir)], CurDir, tmp)
                  IN  IF tmp = Null THEN [heap |-> h, res |-> "NO_ADDRESS"]
                      ELSE CreateDirLoop(h1, Dirs, i + 1, tmp, Force)
             ELSE IF node = Null \/ ~h[node].isDir
             THEN [heap |-> h, res |-> "CANT_CREATE_DIR"]
             ELSE CreateDirLoop(h, Dirs, i + 1, node, Force)

\* a CreateDir that creates the missing directories whatever Force is
CreateDirForced(h, Path, Force) == CreateDirLoop(h, SplitPath(Path), 0, Root, TRUE)

\* CVFS::CreateDir(Path, Force)
CreateDir(h, Path, Force) == CreateDirLoop(h, SplitPath(Path), 0, Root, Force)

\* CVFSFileStream(file, mode): m_CurPos = 0, and Clear() unless mode has APPEND
NewStream(file, mode) == [file |-> file, mode |-> mode, pos |-> 0]
StreamCtor(h, file, mode) ==
    IF "APPEND" \notin mode THEN [h EXCEPT ![file] = Clear(@)] ELSE h

\* CVFS::Open(Path, mode).  file is the file the returned stream is bound
\* to; res = "NULL" is a return of an empty VFSFileStream without an error.
Open(h, Path, mode) ==
    LET node == GetNodeInfo(h, Path)
    IN  IF node # Null /\ ~h[node].isDir
        THEN [heap |-> StreamCtor(h, node, mode), res |-> "OK", file |-> node]
        ELSE IF node # Null /\ h[node].isDir
        THEN [heap |-> h, res |-> "CANT_CREATE_FILE", file |-> Null]
        ELSE IF "WRITE" \in mode
        THEN LET dir == GetNodeInfo(h, ExtractPath(Path))
                 file == Alloc(h)
                 h1 == [h EXCEPT ![file] = NewFile(ExtractName(Path))]
             IN  IF dir = Null
                 THEN [heap |-> h, res |-> "NULL", file |-> Null]
                 ELSE IF file = Null
                 THEN [heap |-> h, res |-> "NO_ADDRESS", file |-> Null]
                 ELSE IF ~h[dir].isDir
                 THEN [heap |-> h, res |-> "UB", file |-> Null]
                 ELSE [heap |-> StreamCtor(AppendChild(h1, dir, file), file, mode),
                       res |-> "OK", file |-> file]
        ELSE [heap |-> h, res |-> "CANT_OPEN_FILE", file |-> Null]

\* a Rename that renames and then looks for a sibling of the new name
RenameThenCheck(h, Path, Name) ==
    IF NodeExists(h, Path)
    THEN LET Parent == GetNodeInfo(h, ExtractPath(Path))
         IN  IF Parent = Null THEN [heap |-> h, res |-> "SEGV"]
             ELSE IF ~h[Parent].isDir \/ ChildIndexOutOfRange(h, Parent)
             THEN [heap |-> h, res |-> "UB"]
             ELSE [heap |-> RenameChild(h, Parent, ExtractName(Path), Name),
                   res |-> IF NodeExists(h, ExtractPath(Path) \o <<"/">> \o Name)
                           THEN "NODE_ALREADY_EXISTS" ELSE "OK"]
    ELSE [heap |-> h, res |-> "NODE_DOESNT_EXISTS"]

\* CVFS::Rename(Path, Name)
Rename(h, Path, Name) ==
    IF NodeExists(h, Path)
    THEN IF ~NodeExists(h, ExtractPath(Path) \o <<"/">> \o Name)
         THEN LET Parent == GetNodeInfo(h, ExtractPath(Path))
              IN  IF Parent = Null THEN [heap |-> h, res |-> "SEGV"]
                  ELSE IF ~h[Parent].isDir \/ ChildIndexOutOfRange(h, Parent)
                  THEN [heap |-> h, res |-> "UB"]
                  ELSE [heap |-> RenameChild(h, Parent, ExtractName(Path), Name),
                        res |-> "OK"]
         ELSE [heap |-> h, res |-> "NODE_ALREADY_EXISTS"]
    ELSE [heap |-> h, res |-> "NODE_DOESNT_EXISTS"]

\* CVFS::Move(From, To)
Move(h, From, To) ==
    IF ~NodeExists(h, From) THEN [heap |-> h, res |-> "NODE_DOESNT_EXISTS"]
    ELSE IF ~NodeExists(h, To) THEN [heap |-> h, res |-> "NODE_DOESNT_EXISTS"]
    ELSE LET DestNode == GetNodeInfo(h, To)
             node == GetNodeInfo(h, From)
             SrcParent == GetNodeInfo(h, ExtractPath(From))
         IN  IF ~h[DestNode].isDir THEN [heap |-> h, res |-> "NODE_IS_FILE"]
             ELSE IF SrcParent = Null THEN [heap |-> h, res |-> "SEGV"]
             ELSE IF ~h[SrcParent].isDir \/ ChildIndexOutOfRange(h, SrcParent)
             THEN [heap |-> h, res |-> "UB"]
             ELSE LET h1 == RemoveChild(h, SrcParent, h[node].name)
                  IN  IF AppendBlocks(h1, DestNode, node)
                      THEN [heap |-> h1, res |-> "DEADLOCK"]
                      ELSE [heap |-> AppendChild(h1, DestNode, node), res |-> "OK"]

\* CVFS::Delete(Path)
Delete(h, Path) ==
    IF ~NodeExists(h, Path) THEN [heap |-> h, res |-> "NODE_DOESNT_EXISTS"]
    ELSE LET node == GetNodeInfo(h, Path)
             Parent == GetNodeInfo(h, ExtractPath(Path))
         IN  IF Parent = Null THEN [heap |-> h, res |-> "SEGV"]
             ELSE IF ~h[Parent].isDir \/ ChildIndexOutOfRange(h, Parent)
             THEN [heap |-> h, res |-> "UB"]
             ELSE [heap |-> RemoveChild(h, Parent, h[node].name), res |-> "OK"]

\* a Copy that does not look for a node at To
CopyOverExisting(h, From, To) ==
    IF ~NodeExists(h, From) THEN [heap |-> h, res |-> "NODE_DOESNT_EXISTS"]
    ELSE LET DestNode == GetNodeInfo(h, ExtractPath(To))
         IN  IF DestNode = Null THEN [heap |-> h, res |-> "SEGV"]
             ELSE IF ~h[DestNode].isDir THEN [heap |-> h, res |-> "NODE_IS_FILE"]
             ELSE LET r == CopyNode(h, GetNodeInfo(h, From))
                      h1 == [r.heap EXCEPT ![r.id].name = ExtractName(To)]
                  IN  IF r.id = Null THEN [heap |-> h, res |-> "NO_ADDRESS"]
                      ELSE [heap |-> AppendChild(h1, DestNode, r.id), res |-> "OK"]

\* CVFS::Copy(From, To)
Copy(h, From, To) ==
    IF ~NodeExists(h, From) THEN [heap |-> h, res |-> "NODE_DOESNT_EXISTS"]
    ELSE IF NodeExists(h, To) THEN [heap |-> h, res |-> "NODE_ALREADY_EXISTS"]
    ELSE LET DestNode == GetNodeInfo(h, ExtractPath(To))
         IN  IF DestNode = Null THEN [heap |-> h, res |-> "SEGV"]
             ELSE IF ~h[DestNode].isDir THEN [heap |-> h, res |-> "NODE_IS_FILE"]
             ELSE LET r == CopyNode(h, GetNodeInfo(h, From))
                      h1 == [r.heap EXCEPT ![r.id].name = ExtractName(To)]
                  IN  IF r.id = Null THEN [heap |-> h, res |-> "NO_ADDRESS"]
                      ELSE [heap |-> AppendChild(h1, DestNode, r.id), res |-> "OK"]

---------------------------------------------------------------------------
(* CVFSFileStream: file is m_File, mode is m_Mode (the set of its bits),   *)
(* pos is m_CurPos.                                                        *)

\* CVFSFileStream::Write(Data, Size)
StreamWrite(h, s, Data, junk) ==
    IF "WRITE" \in s.mode
    THEN LET r == FileWrite(h[s.file], Data, junk)
         IN  [heap |-> [h EXCEPT ![s.file] = r.file], ret |-> r.ret, fault |-> r.fault]
    ELSE [heap |-> h, ret |-> 0, fault |-> "none"]

\* CVFSFileStream::Size()
StreamSize(h, s) == h[s.file].size

\* CVFSFileStream::Tell()
Tell(s) == s.pos

\* a WriteLine that leaves out the terminator
StreamWriteLineBare(h, s, Line, junk) == StreamWrite(h, s, Line, junk)

\* CVFSFileStream::WriteLine(Line): Write(Line) and then Write of '\n'
StreamWriteLine(h, s, Line, junk) ==
    LET r1 == StreamWrite(h, s, Line, junk)
        r2 == StreamWrite(r1.heap, s, <<LF>>, junk)
    IN  IF r1.fault # "none" THEN r1
        ELSE [heap |-> r2.heap, ret |-> r1.ret + r2.ret, fault |-> r2.fault]

\* CVFSFileStream::IsEOF()
IsEOF(h, s) == s.pos >= StreamSize(h, s)

\* a Seek that does not clamp
SeekUnclamped(h, s, cur, Offset) ==
    IF StreamSize(h, s) = 0 THEN s.pos
    ELSE CASE cur = "BEG" -> Offset
           [] cur = "CUR" -> s.pos + Offset
           [] cur = "END" -> StreamSize(h, s) + Offset

\* CVFSFileStream::Seek(cur, Bytes): the new m_CurPos.  Bytes is an int64_t;
\* it is converted to size_t where it is compared or added.
Seek(h, s, cur, Offset) ==
    IF StreamSize(h, s) = 0 THEN s.pos
    ELSE CASE cur = "BEG" ->
                IF ULess(StreamSize(h, s), Offset) THEN StreamSize(h, s) ELSE Offset
           [] cur = "CUR" ->
                LET NewPos == s.pos + Offset
                IN  IF ULess(StreamSize(h, s), NewPos) THEN StreamSize(h, s) ELSE NewPos
           [] cur = "END" ->
                LET NewPos == StreamSize(h, s) + Offset
                IN  IF ULess(StreamSize(h, s), NewPos) THEN StreamSize(h, s) ELSE NewPos

\* CVFSFileStream::Read(Buf, Size): ret is the count returned, buf the bytes
\* stored at Buf, pos the new m_CurPos
StreamRead(h, s, Size, junk) ==
    IF "READ" \in s.mode /\ StreamSize(h, s) # 0
    THEN LET r == FileRead(h[s.file], Size, s.pos, junk)
         IN  [ret |-> r.ret, buf |-> r.buf, pos |-> s.pos + r.ret, fault |-> r.fault]
    ELSE [ret |-> 0, buf |-> <<>>, pos |-> s.pos, fault |-> "none"]

\* CVFSFileStream::Read(): a string of Size() zero bytes, filled by Read(Buf, Size)
StreamReadAll(h, s, junk) ==
    LET n == StreamSize(h, s)
        r == StreamRead(h, s, n, junk)
    IN  [ret |-> r.ret, pos |-> r.pos, fault |-> r.fault,
         buf |-> r.buf \o [i \in 1..(n - Len(r.buf)) |-> NUL]]

\* junk, seen from the k-th byte on
JunkFrom(junk, k) == [i \in 1..MaxLen |-> junk[((i + k - 1) % MaxLen) + 1]]

\* The loop of CVFSFileStream::ReadLine: Read(&c, 1) until it returns 0 or
\* stores '\n'.  k counts the bytes read so far.
RECURSIVE ReadLineLoop(_, _, _, _, _)
ReadLineLoop(h, s, Ret, junk, k) ==
    LET r == StreamRead(h, s, 1, JunkFrom(junk, k))
    IN  IF r.fault # "none" THEN [out |-> Ret, pos |-> s.pos, fault |-> r.fault]
        ELSE IF r.ret = 0 \/ r.buf[1] = LF
        THEN [out |-> Ret, pos |-> r.pos, fault |-> "none"]
        ELSE ReadLineLoop(h, [s EXCEPT !.pos = r.pos], Ret \o r.buf, junk, k + 1)

\* CVFSFileStream::ReadLine()
StreamReadLine(h, s, junk) == ReadLineLoop(h, s, <<>>, junk, 0)

ReadLineNeedsJunk(h, s) ==
    \E j \in JunkSet : StreamReadLine(h, s, j) # StreamReadLine(h, s, NoJunk)

---------------------------------------------------------------------------
(* The calls a program makes, and their arguments *)

\* str("/a/b") is written <<"/", "a", "/", "b">>
Names == {<<"a">>, <<"b">>}
Paths == {<<"/">>, <<"/", "a">>, <<"/", "b">>,
          <<"/", "a", "/", "a">>, <<"/", "a", "/", "b">>,
          <<"/", "a", "/", "b", "/", "a">>}
\* FileMode: the enumerators READ, WRITE, RW, APPEND
FileModes == {{"READ"}, {"WRITE"}, {"READ", "WRITE"}, {"APPEND"}}
\* FileMode: the enumerators and the masks made of them with operator |
Modes == {{"READ"}, {"WRITE"}, {"READ", "WRITE"}, {"APPEND"},
          {"READ", "APPEND"}, {"WRITE", "APPEND"}, {"READ", "WRITE", "APPEND"}}
\* the lines handed to WriteLine
Lines == UNION {[1..n -> {"x"}] : n \in 0..MaxLen}
\* enum class Cursor
Cursors == {"BEG", "CUR", "END"}
\* the offsets handed to Seek: from before the start to behind the end
Offsets == (0 - (MaxSize + 1))..(MaxSize + 1)
\* the byte strings handed to Write
Inputs == UNION {[1..n -> Bytes] : n \in 0..MaxLen}


(* A run is any number of calls.  From some call on the run is observed:   *)
(* each call is then appended to `calls` with its arguments, its outcome   *)
(* and the state it was made in.  Each action takes the set `watch` of the *)
(* choices open at the call: TRUE starts the observation with it.  A       *)
(* specification says how many observed calls it follows; nothing follows  *)
(* a call that left defined behaviour.                                     *)

Call(op, args, res, ret, out) ==
    [op |-> op, args |-> args, res |-> res, ret |-> ret, out |-> out,
     pre |-> heap, pres |-> streams]

NoCall ==
    [op |-> "none", args |-> <<>>, res |-> "OK", ret |-> 0, out |-> <<>>,
     pre |-> <<>>, pres |-> <<>>]

\* the latest observed call
last == IF calls = <<>> THEN NoCall ELSE calls[Len(calls)]

Kept(w, call) == IF w \/ calls # <<>> THEN Append(calls, call) ELSE calls

FaultOf(res) == IF res \in Faults THEN res ELSE "none"

Ready == fault = "none"

\* the threads of the program
Threads == {1, 2}

\* a thread that has not made its call: no locals
IdleThread ==
    [pc |-> "idle", op |-> "none", Path |-> <<>>, i |-> 0, CurDir |-> Null,
     Ret |-> Null, node |-> Null, Start |-> 0, End |-> 0, Pos |-> 0,
     res |-> "none", ret |-> 0, out |-> <<>>,
     stage |-> 0, From |-> <<>>, To |-> <<>>, Name |-> <<>>,
     DestNode |-> Null, SrcNode |-> Null, SrcParent |-> Null]

\* CVFS(): the root directory "/", in a program built with CHUNK_SIZE = size
InitChunk(size) ==
    /\ heap = [n \in 1..MaxNodes |-> IF n = Root THEN NewDir(<<"/">>) ELSE FreeNode]
    /\ streams = <<>>
    /\ calls = <<>>
    /\ fault = "none"
    /\ chunkSize = size
    /\ threads = [t \in Threads |-> IdleThread]
    /\ mutex = [n \in 1..MaxNodes |-> 0]

Init == InitChunk(SmallChunk)

DoCreateDir(Path, Force, watch) ==
    LET r == CreateDir(heap, Path, Force)
    IN  /\ Ready
        /\ UNCHANGED <<chunkSize, threads, mutex>>
        /\ r.res # "NO_ADDRESS"
        /\ heap' = Release(r.heap, streams)
        /\ \E w \in watch : calls' = Kept(w, Call("CreateDir", <<Path, Force>>, r.res, 0, <<>>))
        /\ fault' = FaultOf(r.res)
        /\ UNCHANGED streams

\* keep: the program holds on to the stream Open returns; otherwise the
\* stream is destroyed at the end of the statement
DoOpen(Path, mode, keep, watch) ==
    LET r == Open(heap, Path, mode)
        strs == IF r.res = "OK" /\ keep
                THEN Append(streams, NewStream(r.file, mode)) ELSE streams
    IN  /\ Ready
        /\ UNCHANGED <<chunkSize, threads, mutex>>
        /\ r.res # "NO_ADDRESS"
        /\ keep => Len(streams) < MaxStreams
        /\ streams' = strs
        /\ heap' = Release(r.heap, strs)
        /\ \E w \in watch : calls' = Kept(w, Call("Open", <<Path, mode>>, r.res, r.file, <<>>))
        /\ fault' = FaultOf(r.res)

DoRename(Path, Name, watch) ==
    LET r == Rename(heap, Path, Name)
    IN  /\ Ready
        /\ UNCHANGED <<chunkSize, threads, mutex>>
        /\ heap' = Release(r.heap, streams)
        /\ \E w \in watch : calls' = Kept(w, Call("Rename", <<Path, Name>>, r.res, 0, <<>>))
        /\ fault' = FaultOf(r.res)
        /\ UNCHANGED streams

DoMove(From, To, watch) ==
    LET r == Move(heap, From, To)
    IN  /\ Ready
        /\ UNCHANGED <<chunkSize, threads, mutex>>
        /\ heap' = Release(r.heap, streams)
        /\ \E w \in watch : calls' = Kept(w, Call("Move", <<From, To>>, r.res, 0, <<>>))
        /\ fault' = FaultOf(r.res)
        /\ UNCHANGED streams

DoDelete(Path, watch) ==
    LET r == Delete(heap, Path)
    IN  /\ Ready
        /\ UNCHANGED <<chunkSize, threads, mutex>>
        /\ heap' = Release(r.heap, streams)
        /\ \E w \in watch : calls' = Kept(w, Call("Delete", <<Path>>, r.res, 0, <<>>))
        /\ fault' = FaultOf(r.res)
        /\ UNCHANGED streams

DoCopy(From, To, watch) ==
    LET r == Copy(heap, From, To)
    IN  /\ Ready
        /\ UNCHANGED <<chunkSize, threads, mutex>>
        /\ r.res # "NO_ADDRESS"
        /\ heap' = Release(r.heap, streams)
        /\ \E w \in watch : calls' = Kept(w, Call("Copy", <<From, To>>, r.res, 0, <<>>))
        /\ fault' = FaultOf(r.res)
        /\ UNCHANGED streams

\* streams[i]->Write(Data, Size)
DoWrite(i, Data, watch) ==
    /\ Ready
    /\ UNCHANGED <<chunkSize, threads, mutex>>
    /\ i \in 1..Len(streams)
    /\ heap[streams[i].file].size + Len(Data) <= MaxSize
    /\ \E junk \in (IF WriteNeedsJunk(heap[streams[i].file], Data)
                    THEN JunkSet ELSE {NoJunk}) :
          LET r == StreamWrite(heap, streams[i], Data, junk)
          IN  /\ heap' = r.heap
              /\ \E w \in watch : calls' = Kept(w, Call("Write", <<i, Data>>, "OK", r.ret, <<>>))
              /\ fault' = IF r.fault = "ub" THEN "UB" ELSE "none"
    /\ UNCHANGED streams

\* streams[i]->Read(Buf, Size)
DoRead(i, Size, watch) ==
    /\ Ready
    /\ UNCHANGED <<chunkSize, threads, mutex>>
    /\ i \in 1..Len(streams)
    /\ \E junk \in (IF ReadNeedsJunk(heap[streams[i].file], Size, streams[i].pos)
                    THEN JunkSet ELSE {NoJunk}) :
          LET r == StreamRead(heap, streams[i], Size, junk)
          IN  /\ streams' = [streams EXCEPT ![i].pos = r.pos]
              /\ \E w \in watch : calls' = Kept(w, Call("Read", <<i, Size>>, "OK", r.ret, r.buf))
              /\ fault' = IF r.fault = "ub" THEN "UB" ELSE "none"
    /\ UNCHANGED heap

\* streams[i]->Read()
DoReadAll(i, watch) ==
    /\ Ready
    /\ UNCHANGED <<chunkSize, threads, mutex>>
    /\ i \in 1..Len(streams)
    /\ \E junk \in (IF ReadNeedsJunk(heap[streams[i].file],
                                     heap[streams[i].file].size, streams[i].pos)
                    THEN JunkSet ELSE {NoJunk}) :
          LET r == StreamReadAll(heap, streams[i], junk)
          IN  /\ streams' = [streams EXCEPT ![i].pos = r.pos]
              /\ \E w \in watch : calls' = Kept(w, Call("ReadAll", <<i>>, "OK", r.ret, r.buf))
              /\ fault' = IF r.fault = "ub" THEN "UB" ELSE "none"
    /\ UNCHANGED heap

\* streams[i]->WriteLine(Line)
DoWriteLine(i, Line, watch) ==
    /\ Ready
    /\ UNCHANGED <<chunkSize, threads, mutex>>
    /\ i \in 1..Len(streams)
    /\ heap[streams[i].file].size + Len(Line) + 1 <= MaxSize
    /\ \E junk \in (IF WriteNeedsJunk(heap[streams[i].file], Line)
                    THEN JunkSet ELSE {NoJunk}) :
          LET r == StreamWriteLine(heap, streams[i], Line, junk)
          IN  /\ heap' = r.heap
              /\ \E w \in watch :
                    calls' = Kept(w, Call("WriteLine", <<i, Line>>, "OK", r.ret, <<>>))
              /\ fault' = IF r.fault = "ub" THEN "UB" ELSE "none"
    /\ UNCHANGED streams

\* streams[i]->ReadLine()
DoReadLine(i, watch) ==
    /\ Ready
    /\ UNCHANGED <<chunkSize, threads, mutex>>
    /\ i \in 1..Len(streams)
    /\ \E junk \in (IF ReadLineNeedsJunk(heap, streams[i]) THEN JunkSet ELSE {NoJunk}) :
          LET r == StreamReadLine(heap, streams[i], junk)
          IN  /\ streams' = [streams EXCEPT ![i].pos = r.pos]
              /\ \E w \in watch :
                    calls' = Kept(w, Call("ReadLine", <<i>>, "OK", 0, r.out))
              /\ fault' = IF r.fault = "ub" THEN "UB" ELSE "none"
    /\ UNCHANGED heap

\* streams[i]->Seek(cur, Offset)
DoSeek(i, cur, Offset, watch) ==
    /\ Ready
    /\ UNCHANGED <<chunkSize, threads, mutex>>
    /\ i \in 1..Len(streams)
    /\ streams' = [streams EXCEPT ![i].pos = Seek(heap, streams[i], cur, Offset)]
    /\ \E w \in watch : calls' = Kept(w, Call("Seek", <<i, cur, Offset>>, "OK", 0, <<>>))
    /\ UNCHANGED <<heap, fault>>

\* ~CVFSFileStream(): the program drops streams[i]
DoClose(i, watch) ==
    /\ Ready
    /\ UNCHANGED <<chunkSize, threads, mutex>>
    /\ i \in 1..Len(streams)
    /\ streams' = EraseAt(streams, i - 1)
    /\ heap' = Release(heap, EraseAt(streams, i - 1))
    /\ \E w \in watch : calls' = Kept(w, Call("Close", <<i>>, "OK", 0, <<>>))
    /\ UNCHANGED fault

---------------------------------------------------------------------------
(* Threads.  A thread makes one call of the facade and takes it in steps;  *)
(* a step ends where the thread may have to wait for a node's              *)
(* m_UpdateLock.  IsDir() and GetChilds() lock the node, read and unlock    *)
(* without waiting for anything in between, so each is one step that needs *)
(* the mutex free.  CVFSDir::Search(Name) holds the directory's mutex      *)
(* while it calls Name() on children; that Name() is two steps, the lock   *)
(* and then the read with the unlock.                                      *)

ReadOps == {"GetNodeInfo", "NodeExists", "List"}

\* a lock_guard whose destructor leaves the mutex locked
UnlockNever(m, n) == m

\* std::lock_guard: the constructor locks, the destructor unlocks
Lock(m, n, t) == [m EXCEPT ![n] = t]
Unlock(m, n) == [m EXCEPT ![n] = 0]

Running(t) == threads[t].pc \notin {"idle", "done"}

\* the for loop of GetNodeInfo: another name to search, or the end
LoopPc(Path, i) == IF i >= Len(SplitPath(Path)) THEN "after" ELSE "search"

\* the name GetNodeInfo searches for in step i
DirOf(T) == SplitPath(T.Path)[T.i + 1]

\* the node whose mutex the next step of thread t locks, Null if none
Wants(t) ==
    LET T == threads[t]
        childs == heap[T.CurDir].childs
        Middle == T.Start + ((T.End - T.Start) \div 2)
    IN  CASE T.pc = "search" -> T.CurDir
          [] T.pc = "probe" ->
                IF ULess(T.End, T.Start) \/ T.End = npos \/ T.End = T.Start
                THEN Null ELSE childs[Middle + 1]
          [] T.pc = "compare" -> childs[T.Pos + 1]
          [] T.pc = "isdir" -> T.node
          [] T.pc = "after" -> IF T.op = "List" THEN T.Ret ELSE Null
          [] T.pc \in {"notdir", "getchilds"} -> T.Ret
          [] OTHER -> Null

\* the next step of thread t does not have to wait
CanStep(t) == IF Wants(t) = Null THEN TRUE ELSE mutex[Wants(t)] = 0

\* the call returns (res = "OK") or throws; the locals are gone
Return(T, res, ret, out) ==
    [IdleThread EXCEPT !.pc = "done", !.op = T.op, !.Path = T.Path,
                       !.res = res, !.ret = ret, !.out = out]

\* thread t calls op(Path)
Begin(t, op, Path) ==
    /\ Ready
    /\ threads[t].pc = "idle"
    /\ threads' = [threads EXCEPT ![t] =
          [IdleThread EXCEPT !.pc = LoopPc(Path, 0), !.op = op, !.Path = Path,
                             !.CurDir = Root,
                             !.Ret = IF Path = <<"/">> THEN Root ELSE Null]]
    /\ UNCHANGED <<heap, streams, calls, fault, chunkSize, mutex>>

\* CVFSDir::Search(Name): lock_guard, m_Childs.empty()
SearchEnter(t) ==
    LET T == threads[t]
        childs == heap[T.CurDir].childs
    IN  /\ T.pc = "search"
        /\ CanStep(t)
        /\ mutex' = Lock(mutex, T.CurDir, t)
        /\ threads' = [threads EXCEPT ![t] =
              IF childs # <<>>
              THEN [T EXCEPT !.pc = "probe", !.Start = 0, !.End = Len(childs) - 1]
              ELSE [T EXCEPT !.pc = "unlock", !.node = Null]]
        /\ UNCHANGED <<heap, streams, calls, fault, chunkSize>>

\* CVFSDir::Search(Name, Start, End): one level of the binary search, up to
\* the lock_guard of m_Childs[Middle]->Name()
SearchProbe(t) ==
    LET T == threads[t]
        childs == heap[T.CurDir].childs
        Middle == T.Start + ((T.End - T.Start) \div 2)
    IN  /\ T.pc = "probe"
        /\ CanStep(t)
        /\ IF ULess(T.End, T.Start) \/ T.End = npos
           THEN /\ threads' = [threads EXCEPT ![t] = [T EXCEPT !.pc = "compare", !.Pos = 0]]
                /\ UNCHANGED mutex
           ELSE IF T.End = T.Start
           THEN /\ threads' = [threads EXCEPT ![t] = [T EXCEPT !.pc = "compare", !.Pos = T.End]]
                /\ UNCHANGED mutex
           ELSE /\ threads' = [threads EXCEPT ![t] = [T EXCEPT !.pc = "probeName"]]
                /\ mutex' = Lock(mutex, childs[Middle + 1], t)
        /\ UNCHANGED <<heap, streams, calls, fault, chunkSize>>

\* CVFSDir::Search(Name, Start, End): Name() returns PosName and unlocks the
\* child; the comparisons with Name
SearchProbeName(t) ==
    LET T == threads[t]
        childs == heap[T.CurDir].childs
        Middle == T.Start + ((T.End - T.Start) \div 2)
        PosName == heap[childs[Middle + 1]].name
        Name == DirOf(T)
    IN  /\ T.pc = "probeName"
        /\ mutex' = Unlock(mutex, childs[Middle + 1])
        /\ threads' = [threads EXCEPT ![t] =
              IF PosName = Name
              THEN [T EXCEPT !.pc = "compare", !.Pos = Middle]
              ELSE IF StrLess(PosName, Name)
              THEN [T EXCEPT !.pc = "probe", !.Start = Middle + 1]
              ELSE IF StrLess(Name, PosName)
              THEN [T EXCEPT !.pc = "probe", !.End = Middle - 1]
              ELSE [T EXCEPT !.pc = "compare", !.Pos = Middle]]
        /\ UNCHANGED <<heap, streams, calls, fault, chunkSize>>

\* CVFSDir::Search(Name): the lock_guard of m_Childs[Pos]->Name()
SearchCompare(t) ==
    LET T == threads[t]
        Child == heap[T.CurDir].childs[T.Pos + 1]
    IN  /\ T.pc = "compare"
        /\ CanStep(t)
        /\ mutex' = Lock(mutex, Child, t)
        /\ threads' = [threads EXCEPT ![t] = [T EXCEPT !.pc = "compareName"]]
        /\ UNCHANGED <<heap, streams, calls, fault, chunkSize>>

\* CVFSDir::Search(Name): Name() returns and unlocks the child;
\* if(m_Childs[Pos]->Name() == Name) Ret = m_Childs[Pos]
SearchCompareName(t) ==
    LET T == threads[t]
        Child == heap[T.CurDir].childs[T.Pos + 1]
    IN  /\ T.pc = "compareName"
        /\ mutex' = Unlock(mutex, Child)
        /\ threads' = [threads EXCEPT ![t] =
              [T EXCEPT !.pc = "unlock", !.Start = 0, !.End = 0, !.Pos = 0,
                        !.node = IF heap[Child].name = DirOf(T) THEN Child ELSE Null]]
        /\ UNCHANGED <<heap, streams, calls, fault, chunkSize>>

\* CVFSDir::Search(Name) returns: the lock_guard unlocks.  GetNodeInfo goes
\* on with if(node && ...) or with Ret = nullptr; break
SearchLeave(t) ==
    LET T == threads[t]
    IN  /\ T.pc = "unlock"
        /\ mutex' = Unlock(mutex, T.CurDir)
        /\ threads' = [threads EXCEPT ![t] =
              IF T.node # Null THEN [T EXCEPT !.pc = "isdir"]
              ELSE [T EXCEPT !.pc = "after", !.Ret = Null]]
        /\ UNCHANGED <<heap, streams, calls, fault, chunkSize>>

\* GetNodeInfo: node->IsDir() || (i == Dirs.size() - 1), and the branch taken
GoInto(t) ==
    LET T == threads[t]
    IN  /\ T.pc = "isdir"
        /\ CanStep(t)
        /\ threads' = [threads EXCEPT ![t] =
              IF heap[T.node].isDir \/ T.i = Len(SplitPath(T.Path)) - 1
              THEN [T EXCEPT !.pc = LoopPc(T.Path, T.i + 1), !.i = T.i + 1,
                             !.Ret = T.node, !.CurDir = T.node, !.node = Null]
              ELSE [T EXCEPT !.pc = "after", !.Ret = Null, !.node = Null]]
        /\ UNCHANGED <<heap, streams, calls, fault, chunkSize, mutex>>

\* GetNodeInfo returns Ret; NodeExists compares it with nullptr; List goes on
\* with if(node && node->IsDir())
AfterLoop(t) ==
    LET T == threads[t]
    IN  /\ T.pc = "after"
        /\ T.op \in ReadOps
        /\ CanStep(t)
        /\ threads' = [threads EXCEPT ![t] =
              CASE T.op = "GetNodeInfo" -> Return(T, "OK", T.Ret, <<>>)
                [] T.op = "NodeExists" -> Return(T, "OK", IF T.Ret # Null THEN 1 ELSE 0, <<>>)
                [] T.op = "List" ->
                     IF T.Ret = Null THEN Return(T, "OK", 0, <<>>)
                     ELSE IF heap[T.Ret].isDir THEN [T EXCEPT !.pc = "getchilds"]
                     ELSE [T EXCEPT !.pc = "notdir"]]
        /\ UNCHANGED <<heap, streams, calls, fault, chunkSize, mutex>>

\* List: Ret = Dir->GetChilds()
ListGetChilds(t) ==
    LET T == threads[t]
    IN  /\ T.pc = "getchilds"
        /\ CanStep(t)
        /\ threads' = [threads EXCEPT ![t] = Return(T, "OK", 0, heap[T.Ret].childs)]
        /\ UNCHANGED <<heap, streams, calls, fault, chunkSize, mutex>>

\* List: else if(node && !node->IsDir()) throw
ListNotDir(t) ==
    LET T == threads[t]
    IN  /\ T.pc = "notdir"
        /\ CanStep(t)
        /\ threads' = [threads EXCEPT ![t] =
              IF ~heap[T.Ret].isDir THEN Return(T, "NODE_IS_FILE", 0, <<>>)
              ELSE Return(T, "OK", 0, <<>>)]
        /\ UNCHANGED <<heap, streams, calls, fault, chunkSize, mutex>>

\* thread t goes on with the call it is in
ThreadStep(t) ==
    \/ SearchEnter(t)
    \/ SearchProbe(t)
    \/ SearchProbeName(t)
    \/ SearchCompare(t)
    \/ SearchCompareName(t)
    \/ SearchLeave(t)
    \/ GoInto(t)
    \/ AfterLoop(t)
    \/ ListGetChilds(t)
    \/ ListNotDir(t)

---------------------------------------------------------------------------
(* Move and Rename called by a thread.  The lookups they make are the      *)
(* steps above; stage counts the lookups of the call.  AppendChild,        *)
(* RemoveChild and RenameChild lock the directory in one step and do their *)
(* work on m_Childs in the next, which needs the mutex of every child      *)
(* whose Name() it calls to be free.                                       *)

WriteOps == {"Move", "Rename"}

\* GetNodeInfo(Path) or NodeExists(Path) inside a facade call
StartLookup(T, Path, stage) ==
    [T EXCEPT !.pc = LoopPc(Path, 0), !.Path = Path, !.i = 0, !.stage = stage,
              !.CurDir = Root, !.node = Null,
              !.Ret = IF Path = <<"/">> THEN Root ELSE Null]

\* the call returns (res = "OK") or throws; the locals are gone
Leave(T, res) ==
    [IdleThread EXCEPT !.pc = "done", !.op = T.op, !.Path = T.From, !.To = T.To,
                       !.res = res]

\* the children whose Name() CVFSDir::Search(Name, Start, End) calls
RECURSIVE SearchReads(_, _, _, _, _)
SearchReads(h, childs, Name, Start, End) ==
    IF ULess(End, Start) \/ End = npos \/ End = Start THEN {}
    ELSE LET Middle == Start + ((End - Start) \div 2)
             PosName == h[childs[Middle + 1]].name
         IN  {childs[Middle + 1]} \cup
             (IF PosName = Name THEN {}
              ELSE IF StrLess(PosName, Name)
                   THEN SearchReads(h, childs, Name, Middle + 1, End)
              ELSE IF StrLess(Name, PosName)
                   THEN SearchReads(h, childs, Name, Start, Middle - 1)
              ELSE {})

\* the nodes whose Name() RemoveChild(Name) and RenameChild(Name, ..) call
\* up to if(Child->Name() == Name), in a directory with children
RemoveReads(h, d, Name) ==
    LET childs == h[d].childs
        Pos == SearchPos(h, childs, Name, 0, Len(childs) - 1)
    IN  SearchReads(h, childs, Name, 0, Len(childs) - 1) \cup {childs[Pos + 1]}

\* the nodes whose Name() InternalAppendChild(Child) calls
AppendReads(h, d, c) ==
    LET childs == h[d].childs
        stop == InsertPos(h, childs, c, 0)
    IN  IF childs = <<>> THEN {}
        ELSE {c} \cup {childs[i] : i \in {j \in 1..Len(childs) : j <= stop + 1}}

\* no other thread holds the mutex of a node in S, and neither does t
NamesFree(S) == \A n \in S : mutex[n] = 0

\* a thread dereferences a null pointer or reads past a vector
Crash(f) ==
    /\ fault' = f
    /\ UNCHANGED <<heap, streams, calls, chunkSize, threads, mutex>>

\* thread t calls Move(From, To): if(!NodeExists(From))
BeginMove(t, From, To) ==
    /\ Ready
    /\ threads[t].pc = "idle"
    /\ threads' = [threads EXCEPT ![t] =
          StartLookup([IdleThread EXCEPT !.op = "Move", !.From = From, !.To = To],
                      From, 1)]
    /\ UNCHANGED <<heap, streams, calls, fault, chunkSize, mutex>>

\* Move: what follows each of its five lookups
MoveAfter(t) ==
    LET T == threads[t]
    IN  /\ T.pc = "after"
        /\ T.op = "Move"
        /\ threads' = [threads EXCEPT ![t] =
              CASE T.stage = 1 ->
                     IF T.Ret = Null THEN Leave(T, "NODE_DOESNT_EXISTS")
                     ELSE StartLookup(T, T.To, 2)
                [] T.stage = 2 ->
                     IF T.Ret = Null THEN Leave(T, "NODE_DOESNT_EXISTS")
                     ELSE StartLookup(T, T.To, 3)
                [] T.stage = 3 -> [T EXCEPT !.pc = "destIsDir", !.DestNode = T.Ret]
                [] T.stage = 4 ->
                     StartLookup([T EXCEPT !.SrcNode = T.Ret], ExtractPath(T.From), 5)
                [] OTHER -> [T EXCEPT !.pc = "name", !.SrcParent = T.Ret]]
        /\ UNCHANGED <<heap, streams, calls, fault, chunkSize, mutex>>

\* Move: if(!DestNode->IsDir()) throw; auto node = GetNodeInfo(From)
MoveDestIsDir(t) ==
    LET T == threads[t]
    IN  /\ T.pc = "destIsDir"
        /\ IF T.DestNode = Null THEN Crash("SEGV")
           ELSE /\ mutex[T.DestNode] = 0
                /\ threads' = [threads EXCEPT ![t] =
                      IF ~heap[T.DestNode].isDir THEN Leave(T, "NODE_IS_FILE")
                      ELSE StartLookup(T, T.From, 4)]
                /\ UNCHANGED <<heap, streams, calls, fault, chunkSize, mutex>>

\* Move: node->Name(), the lock_guard
MoveNameLock(t) ==
    LET T == threads[t]
    IN  /\ T.pc = "name"
        /\ IF T.SrcNode = Null THEN Crash("SEGV")
           ELSE /\ mutex[T.SrcNode] = 0
                /\ mutex' = Lock(mutex, T.SrcNode, t)
                /\ threads' = [threads EXCEPT ![t] = [T EXCEPT !.pc = "named"]]
                /\ UNCHANGED <<heap, streams, calls, fault, chunkSize>>

\* another thread is at Child->m_Name = NewName for node n, which it does
\* without n's mutex
WritesName(t, n) ==
    \E u \in Threads \ {t} : threads[u].pc = "assign" /\ threads[u].SrcNode = n

\* another thread is inside Name() of node n
ReadsName(t, n) ==
    \E u \in Threads \ {t} : threads[u].pc = "named" /\ threads[u].SrcNode = n

\* Move: node->Name() returns m_Name and unlocks.  A read at the same time
\* as the write of RenameChild is a data race: the old name, the new one,
\* or a crash
MoveNameRead(t) ==
    LET T == threads[t]
        Named(Name) ==
            /\ mutex' = Unlock(mutex, T.SrcNode)
            /\ threads' = [threads EXCEPT ![t] = [T EXCEPT !.pc = "remove", !.Name = Name]]
            /\ UNCHANGED <<heap, streams, calls, fault, chunkSize>>
    IN  /\ T.pc = "named"
        /\ \/ Named(heap[T.SrcNode].name)
           \/ /\ WritesName(t, T.SrcNode)
              /\ \/ Crash("UB")
                 \/ \E u \in Threads \ {t} :
                       /\ threads[u].pc = "assign"
                       /\ threads[u].SrcNode = T.SrcNode
                       /\ Named(threads[u].To)

\* RemoveChild(Name), RenameChild(Name, NewName): the lock_guard
DirLock(t) ==
    LET T == threads[t]
    IN  /\ T.pc \in {"remove", "rename"}
        /\ IF T.SrcParent = Null THEN Crash("SEGV")
           ELSE IF ~heap[T.SrcParent].isDir THEN Crash("UB")
           ELSE /\ mutex[T.SrcParent] = 0
                /\ mutex' = Lock(mutex, T.SrcParent, t)
                /\ threads' = [threads EXCEPT ![t] =
                      [T EXCEPT !.pc = IF T.pc = "remove" THEN "removing" ELSE "renaming"]]
                /\ UNCHANGED <<heap, streams, calls, fault, chunkSize>>

\* RemoveChild(Name): the search, the erase and the unlock
RemoveBody(t) ==
    LET T == threads[t]
    IN  /\ T.pc = "removing"
        /\ IF ChildIndexOutOfRange(heap, T.SrcParent) THEN Crash("UB")
           ELSE /\ NamesFree(RemoveReads(heap, T.SrcParent, T.Name))
                /\ heap' = RemoveChild(heap, T.SrcParent, T.Name)
                /\ mutex' = Unlock(mutex, T.SrcParent)
                /\ threads' = [threads EXCEPT ![t] = [T EXCEPT !.pc = "append"]]
                /\ UNCHANGED <<streams, calls, fault, chunkSize>>

\* AppendChild(Child): the lock_guard
AppendLock(t) ==
    LET T == threads[t]
    IN  /\ T.pc = "append"
        /\ mutex[T.DestNode] = 0
        /\ mutex' = Lock(mutex, T.DestNode, t)
        /\ threads' = [threads EXCEPT ![t] = [T EXCEPT !.pc = "appending"]]
        /\ UNCHANGED <<heap, streams, calls, fault, chunkSize>>

\* AppendChild(Child): InternalAppendChild and the unlock; Move returns
AppendBody(t) ==
    LET T == threads[t]
    IN  /\ T.pc = "appending"
        /\ NamesFree(AppendReads(heap, T.DestNode, T.SrcNode))
        /\ heap' = AppendChild(heap, T.DestNode, T.SrcNode)
        /\ mutex' = Unlock(mutex, T.DestNode)
        /\ threads' = [threads EXCEPT ![t] = Leave(T, "OK")]
        /\ UNCHANGED <<streams, calls, fault, chunkSize>>

\* thread t calls Rename(Path, Name): if(NodeExists(Path))
BeginRename(t, Path, Name) ==
    /\ Ready
    /\ threads[t].pc = "idle"
    /\ threads' = [threads EXCEPT ![t] =
          StartLookup([IdleThread EXCEPT !.op = "Rename", !.From = Path, !.To = Name],
                      Path, 1)]
    /\ UNCHANGED <<heap, streams, calls, fault, chunkSize, mutex>>

\* Rename: what follows each of its three lookups
RenameAfter(t) ==
    LET T == threads[t]
    IN  /\ T.pc = "after"
        /\ T.op = "Rename"
        /\ threads' = [threads EXCEPT ![t] =
              CASE T.stage = 1 ->
                     IF T.Ret = Null THEN Leave(T, "NODE_DOESNT_EXISTS")
                     ELSE StartLookup(T, ExtractPath(T.From) \o <<"/">> \o T.To, 2)
                [] T.stage = 2 ->
                     IF T.Ret # Null THEN Leave(T, "NODE_ALREADY_EXISTS")
                     ELSE StartLookup(T, ExtractPath(T.From), 3)
                [] OTHER -> [T EXCEPT !.pc = "rename", !.SrcParent = T.Ret,
                                      !.Name = ExtractName(T.From)]]
        /\ UNCHANGED <<heap, streams, calls, fault, chunkSize, mutex>>

\* RenameChild: the search, if(Child->Name() == Name) and the erase
RenameErase(t) ==
    LET T == threads[t]
        childs == heap[T.SrcParent].childs
        Pos == SearchPos(heap, childs, T.Name, 0, Len(childs) - 1)
        Child == childs[Pos + 1]
    IN  /\ T.pc = "renaming"
        /\ IF ChildIndexOutOfRange(heap, T.SrcParent) THEN Crash("UB")
           ELSE /\ NamesFree(RemoveReads(heap, T.SrcParent, T.Name))
                /\ IF heap[Child].name = T.Name
                   THEN /\ heap' = [heap EXCEPT ![T.SrcParent].childs = EraseAt(@, Pos)]
                        /\ threads' = [threads EXCEPT ![t] =
                              [T EXCEPT !.pc = "assign", !.SrcNode = Child]]
                        /\ UNCHANGED mutex
                   ELSE /\ mutex' = Unlock(mutex, T.SrcParent)
                        /\ threads' = [threads EXCEPT ![t] = Leave(T, "OK")]
                        /\ UNCHANGED heap
                /\ UNCHANGED <<streams, calls, fault, chunkSize>>

\* RenameChild: Child->m_Name = NewName, with the mutex of the directory
\* and without the mutex of Child.  A write at the same time as the read of
\* Name() is a data race: the write is done, or a crash
RenameAssign(t) ==
    LET T == threads[t]
    IN  /\ T.pc = "assign"
        /\ \/ /\ heap' = [heap EXCEPT ![T.SrcNode].name = T.To]
              /\ threads' = [threads EXCEPT ![t] = [T EXCEPT !.pc = "reinsert"]]
              /\ UNCHANGED <<streams, calls, fault, chunkSize, mutex>>
           \/ /\ ReadsName(t, T.SrcNode)
              /\ Crash("UB")

\* RenameChild: InternalAppendChild(Child) and the unlock; Rename returns
RenameInsert(t) ==
    LET T == threads[t]
    IN  /\ T.pc = "reinsert"
        /\ NamesFree(AppendReads(heap, T.SrcParent, T.SrcNode))
        /\ heap' = InternalAppendChild(heap, T.SrcParent, T.SrcNode)
        /\ mutex' = Unlock(mutex, T.SrcParent)
        /\ threads' = [threads EXCEPT ![t] = Leave(T, "OK")]
        /\ UNCHANGED <<streams, calls, fault, chunkSize>>

\* thread t goes on with the Move or Rename it is in
FacadeStep(t) ==
    \/ MoveAfter(t)
    \/ MoveDestIsDir(t)
    \/ MoveNameLock(t)
    \/ MoveNameRead(t)
    \/ DirLock(t)
    \/ RemoveBody(t)
    \/ AppendLock(t)
    \/ AppendBody(t)
    \/ RenameAfter(t)
    \/ RenameErase(t)
    \/ RenameAssign(t)
    \/ RenameInsert(t)

---------------------------------------------------------------------------
(* Spec: the calls that change the tree, from an empty file system; the    *)
(* streams Open returns are not held.  One call is observed.               *)

Next ==
    /\ calls = <<>>
    /\ \/ \E P \in Paths, F \in BOOLEAN : DoCreateDir(P, F, BOOLEAN)
       \/ \E P \in Paths, m \in FileModes : DoOpen(P, m, FALSE, BOOLEAN)
       \/ \E P \in Paths, N \in Names : DoRename(P, N, BOOLEAN)
       \/ \E F \in Paths, T \in Paths : DoMove(F, T, BOOLEAN)
       \/ \E P \in Paths : DoDelete(P, BOOLEAN)
       \/ \E F \in Paths, T \in Paths : DoCopy(F, T, BOOLEAN)
    /\ Cardinality(Live(heap')) <= TreeNodes

Spec == Init /\ [][Next]_vars

---------------------------------------------------------------------------
(* SpecIO: a program that holds one stream at a time on the file /a/b,   *)
(* and may open the file without holding the stream; one call is observed. *)

DirA == <<"/", "a">>
FileAB == <<"/", "a", "/", "b">>

NextIO ==
    /\ calls = <<>>
    /\ \/ DoCreateDir(DirA, FALSE, BOOLEAN)
       \/ \E m \in Modes : DoOpen(FileAB, m, streams = <<>>, BOOLEAN)
       \/ \E D \in Inputs : DoWrite(1, D, BOOLEAN)
       \/ \E L \in Lines : DoWriteLine(1, L, BOOLEAN)
       \/ \E n \in 1..MaxLen : DoRead(1, n, BOOLEAN)
       \/ DoReadAll(1, BOOLEAN)
       \/ DoReadLine(1, BOOLEAN)
       \/ \E cur \in Cursors, o \in Offsets : DoSeek(1, cur, o, BOOLEAN)
       \/ DoClose(1, BOOLEAN)

SpecIO == Init /\ [][NextIO]_vars

---------------------------------------------------------------------------
(* SpecRoundTrip: a program that makes a directory, opens a new file in it *)
(* for writing, writes, opens the file again for reading and reads it.     *)

WriteModes == {m \in Modes : "WRITE" \in m}
ReadModes == {m \in Modes : "READ" \in m}

NextRoundTrip ==
    \/ Len(calls) = 0 /\ DoCreateDir(DirA, FALSE, {TRUE})
    \/ Len(calls) = 1 /\ \E m \in WriteModes : DoOpen(FileAB, m, TRUE, {TRUE})
    \/ Len(calls) = 2 /\ \E D \in Inputs : DoWrite(1, D, {TRUE})
    \/ Len(calls) = 3 /\ \E m \in ReadModes : DoOpen(FileAB, m, TRUE, {TRUE})
    \/ Len(calls) = 4 /\ DoReadAll(2, {TRUE})

SpecRoundTrip == Init /\ [][NextRoundTrip]_vars

---------------------------------------------------------------------------
(* SpecShared: several streams on the file /a/b, which grows by one-byte   *)
(* writes; one call is observed.                                           *)

NextShared ==
    /\ calls = <<>>
    /\ \/ DoCreateDir(DirA, FALSE, BOOLEAN)
       \/ \E m \in Modes : DoOpen(FileAB, m, TRUE, BOOLEAN)
       \/ \E i \in 1..MaxStreams : DoWrite(i, <<"x">>, BOOLEAN)
       \/ \E i \in 1..MaxStreams : DoClose(i, BOOLEAN)

SpecShared == Init /\ [][NextShared]_vars

---------------------------------------------------------------------------
(* SpecCopy: directories and files with content are set up, one stream at  *)
(* a time; then Copy is observed, and after a Copy that succeeded one      *)
(* change of the tree: a Rename, a Delete, or an Open followed by a Write  *)
(* through the stream it returned.                                         *)

\* an input that fills one chunk
FullInput == [i \in 1..CHUNK_SIZE |-> "x"]

\* the paths of SpecCopy: a directory /a, and /a/a and /a/b with a child each
CopyPaths == {<<"/", "a">>, <<"/", "a", "/", "a">>, <<"/", "a", "/", "b">>,
              <<"/", "a", "/", "a", "/", "a">>, <<"/", "a", "/", "b", "/", "a">>}

NextCopy ==
    \/ /\ calls = <<>>
       /\ \E P \in CopyPaths : DoCreateDir(P, FALSE, {FALSE})
    \/ /\ calls = <<>>
       /\ streams = <<>>
       /\ \E P \in CopyPaths : DoOpen(P, {"WRITE"}, TRUE, {FALSE})
    \/ /\ calls = <<>>
       /\ DoWrite(1, FullInput, {FALSE})
    \/ /\ calls = <<>>
       /\ DoClose(1, {FALSE})
    \/ /\ calls = <<>>
       /\ \E F \in CopyPaths, T \in CopyPaths : DoCopy(F, T, {TRUE})
    \/ /\ Len(calls) = 1
       /\ last.res = "OK"
       /\ \/ \E P \in CopyPaths, N \in Names : DoRename(P, N, {TRUE})
          \/ \E P \in CopyPaths : DoDelete(P, {TRUE})
          \/ \E P \in CopyPaths, m \in {{"WRITE"}, {"WRITE", "APPEND"}} :
                DoOpen(P, m, TRUE, {TRUE})
    \/ /\ Len(calls) = 2
       /\ last.op = "Open"
       /\ last.res = "OK"
       /\ DoWrite(Len(streams), <<"x">>, {TRUE})

SpecCopy == Init /\ [][NextCopy]_vars

---------------------------------------------------------------------------
(* SpecLines: a program built with chunks that hold several lines makes a  *)
(* directory, opens a new file in it for reading and writing, and then     *)
(* writes lines and reads lines, at most MaxLines of each.                 *)

MaxLines == 2

InitLines == InitChunk(LineChunk)

\* the number of observed calls of operation op
Count(op) == Cardinality({j \in 1..Len(calls) : calls[j].op = op})

NextLines ==
    \/ Len(calls) = 0 /\ DoCreateDir(DirA, FALSE, {TRUE})
    \/ /\ Len(calls) = 1
       /\ \E m \in WriteModes \cap ReadModes : DoOpen(FileAB, m, TRUE, {TRUE})
    \/ /\ Len(calls) >= 2
       /\ Count("WriteLine") < MaxLines
       /\ \E L \in Lines : DoWriteLine(1, L, {TRUE})
    \/ /\ Len(calls) >= 2
       /\ Count("ReadLine") < MaxLines
       /\ DoReadLine(1, {TRUE})

SpecLines == InitLines /\ [][NextLines]_vars

---------------------------------------------------------------------------
(* SpecReaders: the program makes the directories /a and /b and the file   *)
(* /a/b, or stops early; then its threads each make one call of            *)
(* GetNodeInfo, NodeExists or List, and nothing else touches the tree.  A  *)
(* thread that can go on does so in the end.                               *)

DirB == <<"/", "b">>

\* the paths the threads look up: a directory and what it holds
ReadPaths == {DirA, FileAB}

NextReaders ==
    \/ /\ \A t \in Threads : threads[t].pc = "idle"
       /\ \/ Cardinality(Live(heap)) = 1 /\ DoCreateDir(DirA, FALSE, {FALSE})
          \/ Cardinality(Live(heap)) = 2 /\ DoCreateDir(DirB, FALSE, {FALSE})
          \/ Cardinality(Live(heap)) = 3 /\ DoOpen(FileAB, {"WRITE"}, FALSE, {FALSE})
    \/ \E t \in Threads, op \in ReadOps, P \in ReadPaths : Begin(t, op, P)
    \/ \E t \in Threads : ThreadStep(t)

SpecReaders ==
    /\ Init
    /\ [][NextReaders]_vars
    /\ \A t \in Threads : WF_vars(ThreadStep(t))

---------------------------------------------------------------------------
(* SpecMovers: the program makes the directories /a and /b and the file    *)
(* /a/b, or stops early; then its threads each make one call: Move of the  *)
(* file into /b, Rename of the file to c, or NodeExists of the file's path *)
(* before or after the Move.  A crash ends the program.                    *)

FileBB == <<"/", "b", "/", "b">>
NameC == <<"c">>

\* the paths the threads ask for: the file before and after the Move
MovePaths == {FileAB, FileBB}

\* thread t goes on with a lookup
LookupStep(t) ==
    \/ SearchEnter(t)
    \/ SearchProbe(t)
    \/ SearchProbeName(t)
    \/ SearchCompare(t)
    \/ SearchCompareName(t)
    \/ SearchLeave(t)
    \/ GoInto(t)
    \/ AfterLoop(t)

NextMovers ==
    \/ /\ \A t \in Threads : threads[t].pc = "idle"
       /\ \/ Cardinality(Live(heap)) = 1 /\ DoCreateDir(DirA, FALSE, {FALSE})
          \/ Cardinality(Live(heap)) = 2 /\ DoCreateDir(DirB, FALSE, {FALSE})
          \/ Cardinality(Live(heap)) = 3 /\ DoOpen(FileAB, {"WRITE"}, FALSE, {FALSE})
    \/ \E t \in Threads, P \in MovePaths : Begin(t, "NodeExists", P)
    \/ \E t \in Threads : BeginMove(t, FileAB, DirB)
    \/ \E t \in Threads : BeginRename(t, FileAB, NameC)
    \/ \E t \in Threads : Ready /\ LookupStep(t)
    \/ \E t \in Threads : Ready /\ FacadeStep(t)

SpecMovers == Init /\ [][NextMovers]_vars

---------------------------------------------------------------------------
(* SpecSearch: the program makes directories below the root, in any order, *)
(* and then looks one name up in the root; the lookup is observed.         *)

\* the names of the directories made and of the lookups
SearchNames ==
    {<<"a">>, <<"a", "a">>, <<"a", "b">>, <<"b">>, <<"b", "a">>, <<"b", "b">>, <<"c">>}

\* GetNodeInfo("/" + Name): CurDir->Search(Name) on directory d
DoSearch(d, Name, watch) ==
    /\ Ready
    /\ \E w \in watch :
          calls' = Kept(w, Call("Search", <<d, Name>>, "OK", Search(heap, d, Name), <<>>))
    /\ UNCHANGED <<heap, streams, fault, chunkSize, threads, mutex>>

NextSearch ==
    /\ calls = <<>>
    /\ \/ \E N \in SearchNames : DoCreateDir(<<"/">> \o N, FALSE, {FALSE})
       \/ \E N \in SearchNames : DoSearch(Root, N, {TRUE})

SpecSearch == Init /\ [][NextSearch]_vars

---------------------------------------------------------------------------
(* Vocabulary of the properties *)

\* the path made of the first k segments: "/" seg1 "/" seg2 ...
RECURSIVE JoinPath(_, _)
JoinPath(segs, k) ==
    IF k = 0 THEN <<>> ELSE JoinPath(segs, k - 1) \o <<"/">> \o segs[k]

\* the path of the directory that holds Path's last segment
ParentPath(Path) ==
    LET segs == SplitPath(Path)
    IN  IF Len(segs) <= 1 THEN <<"/">> ELSE JoinPath(segs, Len(segs) - 1)

LastSegment(Path) == SplitPath(Path)[Len(SplitPath(Path))]

ChildSet(h, n) == {h[n].childs[i] : i \in 1..Len(h[n].childs)}

\* the nodes of the subtree rooted at the nodes of `frontier`
RECURSIVE Reach(_, _, _)
Reach(h, frontier, seen) ==
    IF frontier = {} THEN seen
    ELSE Reach(h, (UNION {ChildSet(h, n) : n \in frontier}) \ (seen \cup frontier),
               seen \cup frontier)

Subtree(h, n) == Reach(h, {n}, {})

\* the children of d are in strictly ascending name order
StrictlyAscending(h, d) ==
    \A i \in 1..(Len(h[d].childs) - 1) :
        StrLess(h[h[d].childs[i]].name, h[h[d].childs[i + 1]].name)

ChildNames(h, d) == {h[c].name : c \in ChildSet(h, d)}

---------------------------------------------------------------------------
(* C1 *)

\* the five calls of SpecRoundTrip were made and none reported an error
RoundTripDone ==
    /\ Len(calls) = 5
    /\ \A i \in 1..5 : calls[i].res = "OK"

\* C1: bytes B written through a stream opened with WRITE on a new file
\* are what Read() returns after the file is opened again with READ.
C1_RoundTrip == RoundTripDone => last.out = calls[3].args[2]

\* C1, the failing run: B is one byte and Read() returns something else
C1_Witness == RoundTripDone /\ Len(calls[3].args[2]) = 1 /\ last.out # calls[3].args[2]

---------------------------------------------------------------------------
(* C2 *)

\* C2: after any sequence of facade calls the children of every directory
\* are in strictly ascending name order.
C2_ChildrenAscending ==
    \A n \in Subtree(heap, Root) : heap[n].isDir => StrictlyAscending(heap, n)

\* C2, the failing run: two children of one directory carry the same name
C2_Witness ==
    \E n \in Subtree(heap, Root) :
        /\ heap[n].isDir
        /\ \E i \in 1..(Len(heap[n].childs) - 1) :
               heap[heap[n].childs[i]].name = heap[heap[n].childs[i + 1]].name

---------------------------------------------------------------------------
(* C3 *)

\* Move(F, T) was observed with F present, T a directory, T neither F nor
\* inside F
MoveCase ==
    /\ last.op = "Move"
    /\ LET f == GetNodeInfo(last.pre, last.args[1])
           t == GetNodeInfo(last.pre, last.args[2])
       IN  /\ f # Null
           /\ t # Null
           /\ last.pre[t].isDir
           /\ t \notin Subtree(last.pre, f)

\* C3: such a Move succeeds; afterwards F does not resolve and T joined
\* with F's last segment resolves to the node that was at F.
C3_MoveRelocates ==
    MoveCase =>
        /\ last.res = "OK"
        /\ ~NodeExists(heap, last.args[1])
        /\ GetNodeInfo(heap, last.args[2] \o <<"/">> \o LastSegment(last.args[1]))
             = GetNodeInfo(last.pre, last.args[1])

\* C3, the failing run: Move of a child of the root to another directory
C3_Witness ==
    /\ MoveCase
    /\ Len(SplitPath(last.args[1])) = 1
    /\ last.args[2] # <<"/">>
    /\ last.res = "SEGV"

---------------------------------------------------------------------------
(* C4 *)

\* Delete(P) was observed with P a directory other than the root
DeleteCase ==
    /\ last.op = "Delete"
    /\ LET p == GetNodeInfo(last.pre, last.args[1])
       IN  p # Null /\ p # Root /\ last.pre[p].isDir

\* C4: such a Delete succeeds; afterwards neither P nor a path that named
\* a descendant of P resolves, and every path that named a node outside
\* P's subtree resolves to the same node as before.
C4_DeleteRemovesSubtree ==
    DeleteCase =>
        LET p == GetNodeInfo(last.pre, last.args[1])
            gone == Subtree(last.pre, p)
        IN  /\ last.res = "OK"
            /\ \A Q \in Paths :
                  LET q == GetNodeInfo(last.pre, Q)
                  IN  /\ q \in gone => ~NodeExists(heap, Q)
                      /\ (q # Null /\ q \notin gone) => GetNodeInfo(heap, Q) = q

\* C4, the failing run: Delete of a directory that is a child of the root
C4_Witness ==
    /\ DeleteCase
    /\ Len(SplitPath(last.args[1])) = 1
    /\ last.res = "SEGV"

---------------------------------------------------------------------------
(* C5 *)

\* Rename(P, N) was observed with P present, P = D/old, and no child of D
\* named N
RenameCase ==
    /\ last.op = "Rename"
    /\ LET p == GetNodeInfo(last.pre, last.args[1])
           d == GetNodeInfo(last.pre, ParentPath(last.args[1]))
       IN  /\ p # Null /\ p # Root
           /\ d # Null
           /\ p \in ChildSet(last.pre, d)
           /\ last.args[2] \notin ChildNames(last.pre, d)

\* C5: such a Rename succeeds; afterwards D/N resolves to the node that
\* was at P with its content unchanged, P does not resolve, and the other
\* children of D are the same nodes, unchanged.
C5_RenameKeepsNode ==
    RenameCase =>
        LET P == last.args[1]
            N == last.args[2]
            p == GetNodeInfo(last.pre, P)
            d == GetNodeInfo(last.pre, ParentPath(P))
        IN  /\ last.res = "OK"
            /\ GetNodeInfo(heap, JoinPath(SplitPath(P), Len(SplitPath(P)) - 1)
                                   \o <<"/">> \o N) = p
            /\ heap[p] = [last.pre[p] EXCEPT !.name = N]
            /\ ~NodeExists(heap, P)
            /\ ChildSet(heap, d) = ChildSet(last.pre, d)
            /\ \A c \in ChildSet(last.pre, d) \ {p} : heap[c] = last.pre[c]

\* C5, the failing run: Rename of a child of the root
C5_Witness ==
    /\ RenameCase
    /\ Len(SplitPath(last.args[1])) = 1
    /\ last.res = "SEGV"

---------------------------------------------------------------------------
(* C6 *)

\* what a subtree looks like from its root: kinds, sizes and bytes, and
\* the names below the root
RECURSIVE View(_, _)
View(h, n) ==
    [isDir |-> h[n].isDir, size |-> h[n].size, data |-> h[n].data,
     childs |-> [i \in 1..Len(h[n].childs) |->
                    [name |-> h[h[n].childs[i]].name, node |-> View(h, h[n].childs[i])]]]

\* the first observed call is a Copy(F, T) that succeeded
CopyDone ==
    /\ Len(calls) >= 1
    /\ calls[1].op = "Copy"
    /\ calls[1].res = "OK"

\* the state the Copy left
AfterCopy == IF Len(calls) >= 2 THEN calls[2].pre ELSE heap
\* the node at F, and the nodes of its subtree when Copy was called
CopySource == GetNodeInfo(calls[1].pre, calls[1].args[1])
Original == Subtree(calls[1].pre, CopySource)
\* the node at T after the Copy, and the nodes of its subtree
CopyRoot == GetNodeInfo(AfterCopy, calls[1].args[2])
TheCopy == Subtree(AfterCopy, CopyRoot)
TInsideF == CopyRoot \in Subtree(AfterCopy, CopySource)

\* the node the j-th observed call writes to, truncates, renames or deletes
Target(j) ==
    CASE calls[j].op = "Write" -> calls[j].pres[calls[j].args[1]].file
      [] calls[j].op = "Open" -> calls[j].ret
      [] OTHER -> GetNodeInfo(calls[j].pre, calls[j].args[1])

\* every change after the Copy was made to a node of the subtree of n
ChangesUnder(n) ==
    \A j \in 2..Len(calls) : Target(j) \in Subtree(calls[j].pre, n)

\* C6 as stated: after a successful Copy(F, T) the subtree at T has the
\* same relative paths, kinds, sizes and bytes as the subtree at F, and
\* later changes under T leave names, sizes and bytes under F unchanged,
\* and vice versa.
C6_CopyIndependent ==
    CopyDone =>
        /\ CopyRoot # Null
        /\ View(AfterCopy, CopyRoot) = View(AfterCopy, CopySource)
        /\ ChangesUnder(CopyRoot) => View(heap, CopySource) = View(AfterCopy, CopySource)
        /\ ChangesUnder(CopySource) => View(heap, CopyRoot) = View(AfterCopy, CopyRoot)

\* C6: after a successful Copy(F, T) the subtree at T has the relative
\* paths, kinds, sizes and bytes the subtree at F had when Copy was called
\* and shares no node with it; when T is not inside F, later changes under
\* T leave every node of the original unchanged, and later changes under F
\* leave every node of the copy unchanged.
C6_CopySnapshot ==
    CopyDone =>
        /\ CopyRoot # Null
        /\ View(AfterCopy, CopyRoot) = View(calls[1].pre, CopySource)
        /\ TheCopy \cap Original = {}
        /\ ~TInsideF =>
              /\ ChangesUnder(CopyRoot) => \A n \in Original : heap[n] = AfterCopy[n]
              /\ ChangesUnder(CopySource) => \A n \in TheCopy : heap[n] = AfterCopy[n]

\* C6: a directory holding a file with bytes was copied to a place outside
\* it, and bytes were then written to the copy of the file
C6_Witness ==
    /\ CopyDone
    /\ ~TInsideF
    /\ Len(calls) = 3
    /\ last.op = "Write"
    /\ last.ret > 0
    /\ Target(3) \in TheCopy \ {CopyRoot}
    /\ AfterCopy[Target(3)].size > 0

---------------------------------------------------------------------------
(* C7 *)

\* C7: Open(P, mode) binds the stream to the File P resolves to; reports
\* CANT_CREATE_FILE when P resolves to a Directory; when P does not
\* resolve, creates a File named by P's last segment under the parent
\* directory and binds the stream to it if mode has WRITE, and reports
\* CANT_OPEN_FILE if not.  It never returns an unbound stream.
C7_OpenOutcomes ==
    last.op = "Open" =>
        LET P == last.args[1]
            mode == last.args[2]
            node == GetNodeInfo(last.pre, P)
        IN  /\ last.res # "NULL"
            /\ (node # Null /\ ~last.pre[node].isDir) =>
                   last.res = "OK" /\ last.ret = node
            /\ (node # Null /\ last.pre[node].isDir) =>
                   last.res = "CANT_CREATE_FILE"
            /\ (node = Null /\ "WRITE" \in mode) =>
                   /\ last.res = "OK"
                   /\ last.ret \notin Live(last.pre)
                   /\ GetNodeInfo(heap, P) = last.ret
                   /\ ~heap[last.ret].isDir
                   /\ heap[last.ret].name = LastSegment(P)
            /\ (node = Null /\ "WRITE" \notin mode) =>
                   last.res = "CANT_OPEN_FILE"

\* C7, the failing run: Open with WRITE of an absent child of the root
\* returns an unbound stream and creates nothing
C7_Witness ==
    /\ last.op = "Open"
    /\ "WRITE" \in last.args[2]
    /\ Len(SplitPath(last.args[1])) = 1
    /\ last.res = "NULL"
    /\ heap = last.pre

---------------------------------------------------------------------------
(* C8 *)

\* Open without APPEND was observed on an existing File of non-zero size
TruncateCase ==
    /\ last.op = "Open"
    /\ last.res = "OK"
    /\ "APPEND" \notin last.args[2]
    /\ last.pre[last.ret].live
    /\ last.pre[last.ret].size > 0

\* C8: after such an Open, Size() is 0 through the new stream and through
\* every other stream bound to that File.
C8_OpenTruncates ==
    TruncateCase =>
        \A i \in 1..Len(streams) :
            streams[i].file = last.ret => StreamSize(heap, streams[i]) = 0

\* C8, the failing run: two streams on the File and Size() is not 0
C8_Witness ==
    /\ TruncateCase
    /\ Len(streams) = 2
    /\ \A i \in 1..2 : streams[i].file = last.ret /\ StreamSize(heap, streams[i]) > 0

---------------------------------------------------------------------------
(* C9 *)

\* CreateDir(P, force) was observed, P has segments, and no error came back
CreateDirDone ==
    /\ last.op = "CreateDir"
    /\ last.res = "OK"
    /\ Len(SplitPath(last.args[1])) >= 1

\* C9: after a CreateDir(P, force) that reports no error, P and every
\* proper prefix of P resolve to a Directory.
C9_CreateDirPrefixes ==
    CreateDirDone =>
        \A k \in 1..Len(SplitPath(last.args[1])) :
            LET n == GetNodeInfo(heap, JoinPath(SplitPath(last.args[1]), k))
            IN  n # Null /\ heap[n].isDir

\* C9: a CreateDir with force created two or more directories
C9_Witness ==
    /\ CreateDirDone
    /\ last.args[2]
    /\ Cardinality(Live(heap)) >= Cardinality(Live(last.pre)) + 2

---------------------------------------------------------------------------
(* C10 *)

\* the node the first k segments of P resolve to in the state of the call
Resolved(k) == GetNodeInfo(last.pre, JoinPath(SplitPath(last.args[1]), k))

\* a segment of P resolves to a File
HitsFile ==
    \E k \in 1..Len(SplitPath(last.args[1])) :
        Resolved(k) # Null /\ ~last.pre[Resolved(k)].isDir

\* the segments of P that do not resolve
Absent == {k \in 1..Len(SplitPath(last.args[1])) : Resolved(k) = Null}

\* C10: CreateDir(P, force) fails with CANT_CREATE_DIR and changes
\* nothing when a segment of P resolves to a File, or when force is false
\* and a non-final segment is absent; otherwise it succeeds, every segment
\* that resolved still resolves to the same node, exactly the absent
\* segments are new Directories, and no other node changes except the
\* directory that received the first new one.
C10_CreateDirReference ==
    last.op = "CreateDir" =>
        LET segs == SplitPath(last.args[1])
            n == Len(segs)
            force == last.args[2]
            fails == HitsFile \/ (~force /\ Absent \ {n} # {})
            made == {GetNodeInfo(heap, JoinPath(segs, k)) : k \in Absent}
            first == IF Absent = {} THEN 0
                     ELSE CHOOSE k \in Absent : \A j \in Absent : k <= j
            holder == IF first <= 1 THEN Root ELSE Resolved(first - 1)
        IN  IF fails
            THEN last.res = "CANT_CREATE_DIR" /\ heap = last.pre
            ELSE /\ last.res = "OK"
                 /\ \A k \in (1..n) \ Absent :
                        GetNodeInfo(heap, JoinPath(segs, k)) = Resolved(k)
                 /\ Null \notin made
                 /\ Cardinality(made) = Cardinality(Absent)
                 /\ made \cap Live(last.pre) = {}
                 /\ Live(heap) = Live(last.pre) \cup made
                 /\ \A m \in made : heap[m].isDir
                 /\ \A m \in Live(last.pre) :
                        (Absent = {} \/ m # holder) => heap[m] = last.pre[m]

\* C10: a CreateDir without force created the final segment only
C10_WitnessCreated ==
    /\ last.op = "CreateDir"
    /\ ~last.args[2]
    /\ last.res = "OK"
    /\ Len(SplitPath(last.args[1])) >= 2
    /\ Absent = {Len(SplitPath(last.args[1]))}

---------------------------------------------------------------------------
(* C11 *)

\* the node at Path when the observed call was made
Before(Path) == GetNodeInfo(last.pre, Path)

\* a child of the directory holding Path, other than the node at Path,
\* is named Name
SiblingNamed(Path, Name) ==
    LET d == Before(ParentPath(Path))
    IN  /\ d # Null
        /\ Before(Path) \in ChildSet(last.pre, d)
        /\ \E c \in ChildSet(last.pre, d) \ {Before(Path)} : last.pre[c].name = Name

\* C11: Rename fails with NODE_DOESNT_EXISTS when the source is absent
\* and with NODE_ALREADY_EXISTS when a sibling holds the new name; Move
\* fails with NODE_DOESNT_EXISTS when an endpoint is absent and with
\* NODE_IS_FILE when the destination is a File; Delete fails with
\* NODE_DOESNT_EXISTS when the path is absent; Copy fails with
\* NODE_DOESNT_EXISTS when the source is absent, NODE_ALREADY_EXISTS when
\* the destination exists, NODE_IS_FILE when the destination's parent is a
\* File.  Where two conditions of one operation hold, the first named
\* decides.  A failed call leaves the tree as it was.
C11_ErrorKinds ==
    LET A == last.args
        absent(P) == Before(P) = Null
        isFile(P) == Before(P) # Null /\ ~last.pre[Before(P)].isDir
        fails(kind) == last.res = kind /\ heap = last.pre
    IN  /\ last.op = "Rename" =>
              /\ absent(A[1]) => fails("NODE_DOESNT_EXISTS")
              /\ (~absent(A[1]) /\ SiblingNamed(A[1], A[2])) =>
                     fails("NODE_ALREADY_EXISTS")
        /\ last.op = "Move" =>
              /\ (absent(A[1]) \/ absent(A[2])) => fails("NODE_DOESNT_EXISTS")
              /\ (~absent(A[1]) /\ isFile(A[2])) => fails("NODE_IS_FILE")
        /\ (last.op = "Delete" /\ absent(A[1])) => fails("NODE_DOESNT_EXISTS")
        /\ last.op = "Copy" =>
              /\ absent(A[1]) => fails("NODE_DOESNT_EXISTS")
              /\ (~absent(A[1]) /\ ~absent(A[2])) => fails("NODE_ALREADY_EXISTS")
              /\ (~absent(A[1]) /\ absent(A[2]) /\ isFile(ParentPath(A[2]))) =>
                     fails("NODE_IS_FILE")

\* C11: a Copy whose destination's parent is a File was refused
C11_Witness ==
    /\ last.op = "Copy"
    /\ Before(last.args[1]) # Null
    /\ Before(ParentPath(last.args[2])) # Null
    /\ ~last.pre[Before(ParentPath(last.args[2]))].isDir
    /\ last.res = "NODE_IS_FILE"

---------------------------------------------------------------------------
(* C12, C13 *)

\* the stream of the observed call, as it was when the call was made
SeekStream == last.pres[last.args[1]]
SeekSize == StreamSize(last.pre, SeekStream)

\* the position Seek(cur, Offset) aims at
SeekTarget ==
    CASE last.args[2] = "BEG" -> last.args[3]
      [] last.args[2] = "CUR" -> SeekStream.pos + last.args[3]
      [] last.args[2] = "END" -> SeekSize + last.args[3]

\* Seek was observed on a stream over content that is not empty
SeekCase == last.op = "Seek" /\ SeekSize > 0

\* C12: on a stream over non-empty content a Seek whose target lies
\* before the start leaves Tell() = 0.
C12_SeekBeforeStart ==
    (SeekCase /\ SeekTarget < 0) => Tell(streams[last.args[1]]) = 0

\* C12, the failing run: Seek(BEG, -1) leaves Tell() = Size()
C12_Witness ==
    /\ SeekCase
    /\ last.args[2] = "BEG"
    /\ last.args[3] = 0 - 1
    /\ Tell(streams[last.args[1]]) = SeekSize

\* C13: on a stream over non-empty content a Seek whose target t has
\* 0 <= t <= Size() leaves Tell() = t, and a Seek whose target is greater
\* than Size() leaves Tell() = Size().
C13_SeekInRange ==
    SeekCase =>
        /\ (0 <= SeekTarget /\ SeekTarget <= SeekSize) =>
               Tell(streams[last.args[1]]) = SeekTarget
        /\ SeekTarget > SeekSize => Tell(streams[last.args[1]]) = SeekSize

\* C13: Seek(CUR, o) with o < 0 moved the cursor back to a place in the
\* middle of the content
C13_Witness ==
    /\ SeekCase
    /\ last.args[2] = "CUR"
    /\ last.args[3] < 0
    /\ 0 < SeekTarget
    /\ SeekTarget < SeekSize
    /\ Tell(streams[last.args[1]]) = SeekTarget

---------------------------------------------------------------------------
(* C14: lines written with WriteLine come back from ReadLine *)

\* the bytes n lines take in the file, terminators included
RECURSIVE LineBytes(_)
LineBytes(n) == IF n = 0 THEN 0 ELSE LineBytes(n - 1) + Len(calls[2 + n].args[2]) + 1

\* the program opened a new file for reading and writing, wrote n lines and
\* then read n lines, and the lines take less than one chunk
LinesCase(n) ==
    /\ Len(calls) = 2 + 2 * n
    /\ calls[2].op = "Open" /\ calls[2].res = "OK"
    /\ \A k \in 1..n : calls[2 + k].op = "WriteLine"
    /\ \A k \in 1..n : calls[2 + n + k].op = "ReadLine"
    /\ LineBytes(n) < CHUNK_SIZE

\* C14: on a stream opened for reading and writing on a new file, after n
\* lines were written with WriteLine (together less than one chunk), n calls
\* of ReadLine return the lines in the order written, without terminator;
\* IsEOF is false before each of these calls and true after the last one.
C14_LinesRoundTrip ==
    \A n \in 1..MaxLines :
        LinesCase(n) =>
            /\ \A k \in 1..n : calls[2 + n + k].out = calls[2 + k].args[2]
            /\ \A k \in 1..n : ~IsEOF(calls[2 + n + k].pre, calls[2 + n + k].pres[1])
            /\ IsEOF(heap, streams[1])

\* two lines, the first one not empty, written and read back
C14_Witness ==
    /\ LinesCase(2)
    /\ calls[3].args[2] # <<>>
    /\ calls[3].args[2] # calls[4].args[2]
    /\ calls[6].out = calls[4].args[2]

---------------------------------------------------------------------------
(* C15: Read() and the cursor *)

\* the bytes file f holds: the chunks' bytes one after the other
RECURSIVE ChunkBytes(_, _)
ChunkBytes(data, k) ==
    IF k = 0 THEN <<>> ELSE ChunkBytes(data, k - 1) \o data[k].Data
FileBytes(f) == ChunkBytes(f.data, Len(f.data))

\* the stream and the file of the latest observed stream call, before it
LastStream == last.pres[last.args[1]]
LastFile == last.pre[LastStream.file]

\* C15: Read() on a stream opened with READ returns the bytes of the file
\* from offset 0 on, wherever the cursor of the stream is.
C15_ReadAllFromStart ==
    (last.op = "ReadAll" /\ "READ" \in LastStream.mode) => last.out = FileBytes(LastFile)

\* C15, the failing run: the file holds one byte, the cursor was moved to 1
\* (by Seek or by reading), and Read() returns a string that is not the
\* file's byte
C15_Witness ==
    /\ last.op = "ReadAll"
    /\ "READ" \in LastStream.mode
    /\ LastStream.pos = 1
    /\ LastFile.size = 1
    /\ FileBytes(LastFile) = <<"x">>
    /\ fault = "none"
    /\ last.out # FileBytes(LastFile)

---------------------------------------------------------------------------
(* C16: stream operations that cannot do their work *)

\* the latest observed call is Read(Buf, Size) on a stream that may not
\* read, on a file without content, or with the cursor at the end
NothingToRead ==
    /\ last.op = "Read"
    /\ \/ "READ" \notin LastStream.mode
       \/ LastFile.size = 0
       \/ LastStream.pos = LastFile.size

\* the latest observed call is Write or WriteLine on a stream that may not write
MayNotWrite ==
    /\ last.op \in {"Write", "WriteLine"}
    /\ "WRITE" \notin LastStream.mode

\* C16: Write and WriteLine on a stream without WRITE return 0 and leave the
\* file as it was; Read(Buf, Size) on a stream without READ, on a file
\* without content, or with the cursor at the end returns 0 and leaves the
\* cursor where it was; neither raises an error.
C16_QuietFailure ==
    /\ MayNotWrite =>
          /\ last.ret = 0
          /\ heap = last.pre
          /\ last.res = "OK" /\ fault = "none"
    /\ NothingToRead =>
          /\ last.ret = 0
          /\ streams[last.args[1]].pos = LastStream.pos
          /\ last.res = "OK" /\ fault = "none"

\* C16, the failing run: the file was truncated by a second Open and still
\* reports its old size; with the cursor at that size, Read(Buf, Size)
\* returns a byte and moves the cursor
C16_Witness ==
    /\ NothingToRead
    /\ "READ" \in LastStream.mode
    /\ LastFile.size > 0
    /\ FileBytes(LastFile) = <<>>
    /\ last.ret > 0
    /\ streams[last.args[1]].pos > LastStream.pos

---------------------------------------------------------------------------
(* C17: no facade call waits for a lock for ever *)

\* C17: a facade call made by the only thread of the program returns or
\* throws; it never waits for a node's mutex that will not be released.
C17_NoCallBlocks == last.res # "DEADLOCK"

\* C17, the failing run: Move of a directory that has a child, with the
\* directory itself as destination, waits for the mutex it holds
C17_Witness ==
    /\ last.op = "Move"
    /\ last.args[1] = last.args[2]
    /\ Before(last.args[1]) # Null
    /\ last.pre[Before(last.args[1])].isDir
    /\ last.pre[Before(last.args[1])].childs # <<>>
    /\ last.res = "DEADLOCK"

---------------------------------------------------------------------------
(* C18: threads that only read the tree *)

\* what the call thread t made returns when nothing else runs
Alone(t) ==
    LET T == threads[t]
    IN  CASE T.op = "GetNodeInfo" ->
               [res |-> "OK", ret |-> GetNodeInfo(heap, T.Path), out |-> <<>>]
          [] T.op = "NodeExists" ->
               [res |-> "OK", ret |-> IF NodeExists(heap, T.Path) THEN 1 ELSE 0, out |-> <<>>]
          [] T.op = "List" ->
               [res |-> List(heap, T.Path).res, ret |-> 0, out |-> List(heap, T.Path).out]

\* a thread is inside a call, and every thread inside a call waits for a mutex
AllWait ==
    /\ \E t \in Threads : Running(t)
    /\ \A t \in Threads : Running(t) => ~CanStep(t)

\* the calls that have returned returned what they return alone
SameAsAlone ==
    \A t \in Threads :
        threads[t].pc = "done" =>
            [res |-> threads[t].res, ret |-> threads[t].ret, out |-> threads[t].out] = Alone(t)

\* C18: when threads run GetNodeInfo, NodeExists and List at the same time on
\* a tree that is not changed, the threads never all wait for each other,
\* every call a thread has begun returns, and it returns what it returns
\* when it runs alone.
C18_ReadersComplete ==
    /\ [](~AllWait /\ SameAsAlone)
    /\ \A t \in Threads : Running(t) ~> threads[t].pc = "done"

\* one thread holds the mutex of a directory with children inside Search,
\* another thread waits for that mutex, and the path of each leads to a node
C18_Witness ==
    \E t, u \in Threads :
        /\ Running(t) /\ Running(u)
        /\ ~CanStep(t)
        /\ mutex[Wants(t)] = u
        /\ threads[u].pc = "probe"
        /\ GetNodeInfo(heap, threads[t].Path) \notin {Null, Root}
        /\ GetNodeInfo(heap, threads[u].Path) \notin {Null, Root}

---------------------------------------------------------------------------
(* C19: Write appends what it is given *)

\* the file of the latest observed stream call, after it
LastFileNow == heap[LastStream.file]

\* C19: Write of n bytes on a stream opened with WRITE returns n, makes the
\* file n bytes larger and appends the n bytes in order, also when they do
\* not fit into the chunk the file ends in.
C19_WriteAppends ==
    (last.op = "Write" /\ "WRITE" \in LastStream.mode) =>
        /\ last.ret = Len(last.args[2])
        /\ LastFileNow.size = LastFile.size + Len(last.args[2])
        /\ FileBytes(LastFileNow) = FileBytes(LastFile) \o last.args[2]

\* C19, the failing run: bytes that need more than one chunk are written to
\* an empty file, and Write returns more than it was given
C19_Witness ==
    /\ last.op = "Write"
    /\ "WRITE" \in LastStream.mode
    /\ LastFile.size = 0
    /\ FileBytes(LastFile) = <<>>
    /\ Len(last.args[2]) > CHUNK_SIZE
    /\ last.ret > Len(last.args[2])
    /\ LastFileNow.size > Len(last.args[2])

---------------------------------------------------------------------------
(* C20: Read(Buf, Size) returns the bytes at the cursor *)

Min(a, b) == IF a < b THEN a ELSE b

\* the latest observed call is Read(Buf, Size) on a stream opened with READ,
\* on a file that holds as many bytes as its size says, the cursor inside
ReadCase ==
    /\ last.op = "Read"
    /\ "READ" \in LastStream.mode
    /\ LastFile.size = Len(FileBytes(LastFile))
    /\ LastStream.pos <= LastFile.size

\* the number of bytes Read is to return
ReadCount == Min(last.args[2], LastFile.size - LastStream.pos)

\* C20: Read(Buf, Size) on a stream opened with READ returns
\* n = min(Size, file size - cursor), stores the n bytes of the file from the
\* cursor on and nothing more, and moves the cursor by n, also when the
\* bytes lie in more than one chunk.
C20_ReadReturnsRange ==
    ReadCase =>
        /\ fault = "none"
        /\ last.ret = ReadCount
        /\ last.out = SubSeq(FileBytes(LastFile), LastStream.pos + 1, LastStream.pos + ReadCount)
        /\ streams[last.args[1]].pos = LastStream.pos + ReadCount

\* C20, the failing run: the bytes asked for are in the file, begin in one
\* chunk and end in the next, and Read stores behind the buffer
C20_Witness ==
    /\ ReadCase
    /\ LastStream.pos + last.args[2] <= LastFile.size
    /\ LastStream.pos \div CHUNK_SIZE # (LastStream.pos + last.args[2] - 1) \div CHUNK_SIZE
    /\ LastStream.pos % CHUNK_SIZE # 0
    /\ fault = "UB"

---------------------------------------------------------------------------
(* C21: the cursor stays inside the file *)

\* C21: after any calls on a stream, and on other streams of the same file,
\* the cursor of the stream is at least 0 and at most the size of the file.
C21_CursorInRange ==
    \A i \in 1..Len(streams) :
        /\ 0 <= Tell(streams[i])
        /\ Tell(streams[i]) <= StreamSize(heap, streams[i])

\* C21, the failing run: the file holds as many bytes as its size says, the
\* cursor was inside it, and Read(Buf, Size) leaves the cursor behind the end
C21_Witness ==
    /\ ReadCase
    /\ fault = "none"
    /\ LastFileNow = LastFile
    /\ Tell(streams[last.args[1]]) > StreamSize(heap, streams[last.args[1]])

---------------------------------------------------------------------------
(* C22: the size of a file and its chunks *)

\* the sum of Filled over the first k chunks
RECURSIVE SumFilled(_, _)
SumFilled(data, k) == IF k = 0 THEN 0 ELSE SumFilled(data, k - 1) + data[k].Filled

Files(h) == {n \in Live(h) : ~h[n].isDir}

\* C22: after any opens, writes and reads the size of every file is the sum
\* of the filled counts of its chunks, and every chunk before a chunk that
\* holds bytes is full.
C22_SizeIsSumOfChunks ==
    \A n \in Files(heap) :
        /\ heap[n].size = SumFilled(heap[n].data, Len(heap[n].data))
        /\ \A k \in 1..Len(heap[n].data) :
              heap[n].data[k].Filled > 0 =>
                  \A j \in 1..(k - 1) : heap[n].data[j].Filled = CHUNK_SIZE

\* C22, the failing run: Open of a file that holds bytes, with a mode
\* without APPEND, empties the chunks and leaves the size as it was
C22_Witness ==
    /\ last.op = "Open" /\ last.res = "OK"
    /\ "APPEND" \notin last.args[2]
    /\ last.pre[last.ret].live
    /\ last.pre[last.ret].size = SumFilled(last.pre[last.ret].data, Len(last.pre[last.ret].data))
    /\ last.pre[last.ret].size > 0
    /\ SumFilled(heap[last.ret].data, Len(heap[last.ret].data)) = 0
    /\ heap[last.ret].size = last.pre[last.ret].size

---------------------------------------------------------------------------
(* C23: Write uses chunks the file has *)

\* C23: every chunk Write or WriteLine goes to has been allocated: the index
\* into m_Data is below the number of chunks, whatever the size of the file
\* and the number of bytes written.
C23_WriteChunkAllocated ==
    last.op \in {"Write", "WriteLine"} => fault # "UB"

\* C23, the failing run: the size of the file is the sum of its chunks, the
\* last chunk is partly filled, and a Write of more bytes than it has room
\* for goes on to a chunk behind the last one
C23_Witness ==
    /\ last.op = "Write"
    /\ "WRITE" \in LastStream.mode
    /\ LastFile.size = SumFilled(LastFile.data, Len(LastFile.data))
    /\ LastFile.size = Len(FileBytes(LastFile))
    /\ LastFile.size < Len(LastFile.data) * CHUNK_SIZE
    /\ LastFile.size + Len(last.args[2]) > Len(LastFile.data) * CHUNK_SIZE
    /\ fault = "UB"

---------------------------------------------------------------------------
(* C24: the nodes form a tree *)

\* the places (directory, position) where node n is a child
ParentSlots(h, n) ==
    {<<d, i>> \in Live(h) \X (1..MaxNodes) : i <= Len(h[d].childs) /\ h[d].childs[i] = n}

\* the root has no parent; every other node that exists is a child in one
\* place, can be reached from the root, and is not below itself
IsTree(h) ==
    /\ ParentSlots(h, Root) = {}
    /\ \A n \in Live(h) \ {Root} :
          /\ Cardinality(ParentSlots(h, n)) = 1
          /\ n \in Subtree(h, Root)
          /\ n \notin Reach(h, ChildSet(h, n), {})

\* C24: a facade call that returns without error on a tree leaves a tree:
\* every node but the root is the child of exactly one directory, no
\* directory is below itself, and every node that exists can be reached
\* from the root; so it is after every sequence of such calls.
C24_StaysTree ==
    (last.op # "none" /\ last.res = "OK" /\ IsTree(last.pre)) => IsTree(heap)

\* C24, the failing run: Move(F, T) with T inside the subtree of F returns
\* without error, and the node that was at F cannot be reached from the root
C24_Witness ==
    /\ last.op = "Move" /\ last.res = "OK"
    /\ IsTree(last.pre)
    /\ Before(last.args[1]) # Null
    /\ Before(last.args[2]) \in Subtree(last.pre, Before(last.args[1])) \ {Before(last.args[1])}
    /\ heap[Before(last.args[1])].live
    /\ Before(last.args[1]) \notin Subtree(heap, Root)

---------------------------------------------------------------------------
(* C25: a call that throws changes nothing *)

\* the latest observed call is a facade call that threw a CVFSException
Threw ==
    /\ last.op \in {"CreateDir", "Open", "Rename", "Move", "Delete", "Copy"}
    /\ last.res \in VFSErrors

---------------------------------------------------------------------------
(* C26: the loop while(!fs->IsEOF()) fs->ReadLine() *)

\* the latest observed call is ReadLine on a stream opened with READ that
\* was not at the end of the file
ReadLineCase ==
    /\ last.op = "ReadLine"
    /\ "READ" \in LastStream.mode
    /\ ~IsEOF(last.pre, LastStream)

\* C26: a ReadLine on a stream opened with READ, called while IsEOF is
\* false, moves the cursor forward by at least one byte; so the loop that
\* calls ReadLine until IsEOF is true ends after at most Size() calls.
C26_ReadLineAdvances ==
    ReadLineCase => Tell(streams[last.args[1]]) > Tell(LastStream)

\* C26, the failing run: the file was emptied by a second Open and reports
\* its old size; ReadLine at cursor 0 returns an empty line, the cursor
\* stays at 0 and IsEOF stays false
C26_Witness ==
    /\ ReadLineCase
    /\ fault = "none"
    /\ FileBytes(LastFile) = <<>>
    /\ Tell(LastStream) = 0
    /\ last.out = <<>>
    /\ Tell(streams[last.args[1]]) = 0
    /\ ~IsEOF(heap, streams[last.args[1]])

---------------------------------------------------------------------------
(* C27: APPEND *)

\* the latest observed call is a Write through a stream opened with WRITE
\* and APPEND
AppendWrite ==
    /\ last.op = "Write"
    /\ {"WRITE", "APPEND"} \subseteq LastStream.mode

\* C27: Open of a file that exists, with a mode that has APPEND, leaves the
\* bytes and the size of the file as they were; a Write through a stream
\* opened with WRITE and APPEND puts its bytes directly behind the bytes
\* the file holds.
C27_AppendKeepsContent ==
    /\ (last.op = "Open" /\ last.res = "OK" /\ "APPEND" \in last.args[2]
            /\ last.pre[last.ret].live)
          => heap[last.ret] = last.pre[last.ret]
    /\ AppendWrite => FileBytes(LastFileNow) = FileBytes(LastFile) \o last.args[2]

\* C27, the failing run: the file holds as many bytes as its size says, at
\* least one; the stream has WRITE and APPEND; after the Write the file
\* holds something else than the old bytes followed by the new ones
C27_Witness ==
    /\ AppendWrite
    /\ fault = "none"
    /\ LastFile.size > 0
    /\ LastFile.size = Len(FileBytes(LastFile))
    /\ FileBytes(LastFileNow) # FileBytes(LastFile) \o last.args[2]

---------------------------------------------------------------------------
(* C28: writing and the cursor *)

\* the bytes the latest observed Write or WriteLine was given to write
Given ==
    IF last.op = "WriteLine" THEN last.args[2] \o <<LF>> ELSE last.args[2]

\* the latest observed call is a Write or WriteLine through a stream opened
\* with WRITE, and it returned
WriteCase ==
    /\ last.op \in {"Write", "WriteLine"}
    /\ "WRITE" \in LastStream.mode
    /\ fault = "none"

\* C28: a Write or WriteLine leaves the cursor of the stream where it was;
\* when it returns, the bytes the chunks held are not overwritten, the
\* bytes given to Write, or the line given to WriteLine, come directly
\* behind them, and the terminator WriteLine writes is the last byte of the
\* file, wherever the cursor is.
C28_WriteIgnoresCursor ==
    /\ last.op \in {"Write", "WriteLine"} =>
          Tell(streams[last.args[1]]) = Tell(LastStream)
    /\ WriteCase =>
          LET old == FileBytes(LastFile)
              new == FileBytes(LastFileNow)
          IN  /\ Len(new) >= Len(old) + Len(Given)
              /\ SubSeq(new, 1, Len(old)) = old
              /\ SubSeq(new, Len(old) + 1, Len(old) + Len(last.args[2])) = last.args[2]
              /\ last.op = "WriteLine" => new[Len(new)] = LF

\* bytes were written through a stream whose cursor was before the end of a
\* file that held bytes
C28_Witness ==
    /\ WriteCase
    /\ last.op = "Write"
    /\ last.args[2] # <<>>
    /\ LastFile.size = Len(FileBytes(LastFile))
    /\ Tell(LastStream) < LastFile.size
    /\ Tell(streams[last.args[1]]) = Tell(LastStream)
    /\ FileBytes(LastFileNow) = FileBytes(LastFile) \o last.args[2]

\* the mutexes thread t holds
Held(t) == {n \in 1..MaxNodes : mutex[n] = t}

\* thread t is inside Name() of a node while thread u is at the assignment
\* to m_Name of the same node
NameRace(t, u) ==
    /\ t # u
    /\ threads[t].pc = "named"
    /\ threads[u].pc = "assign"
    /\ threads[t].SrcNode = threads[u].SrcNode

\* C29: a thread that writes the name of a node holds that node's mutex, and
\* no thread is inside Name() of a node while another thread, in Rename,
\* writes the name of the same node without holding the node's mutex.
C29_FieldsUnderOwnLock ==
    /\ \A u \in Threads :
          threads[u].pc = "assign" => threads[u].SrcNode \in Held(u)
    /\ \A t, u \in Threads :
          NameRace(t, u) => threads[u].SrcNode \in Held(u)

\* Move is inside Name() of the file and holds the file's mutex; Rename is
\* at Child->m_Name = NewName for the same file and holds only the mutex of
\* the directory
C29_Witness ==
    \E t, u \in Threads :
       /\ NameRace(t, u)
       /\ threads[t].op = "Move"
       /\ threads[u].op = "Rename"
       /\ Held(t) = {threads[t].SrcNode}
       /\ Held(u) = {threads[u].SrcParent}
       /\ fault = "none"

\* thread t is in Move and no thread is in Rename
MoveAmongReaders(t) ==
    /\ threads[t].op = "Move"
    /\ \A u \in Threads : threads[u].op # "Rename"

\* Move takes the mutex of the source's directory for the removal, gives it
\* back, and only then takes the mutex of the destination; in between the
\* moved node is at neither path
MoveInTwoSteps ==
    \A t \in Threads :
       LET T == threads[t]
       IN  /\ T.op = "Move" /\ T.pc = "removing" => Held(t) = {T.SrcParent}
           /\ T.op = "Move" /\ T.pc = "append" => Held(t) = {}
           /\ T.op = "Move" /\ T.pc = "appending" => Held(t) = {T.DestNode}
           /\ MoveAmongReaders(t) /\ T.pc \in {"append", "appending"} =>
                 /\ heap[T.SrcNode].live
                 /\ GetNodeInfo(heap, T.From) # T.SrcNode
                 /\ GetNodeInfo(heap, T.To \o <<"/">> \o T.Name) # T.SrcNode
                 /\ \A d \in Live(heap) :
                       \A k \in 1..Len(heap[d].childs) : heap[d].childs[k] # T.SrcNode

\* the directories among the mutexes thread t holds
HeldDirs(t) == {n \in Held(t) : heap[n].isDir}

\* thread t is in CVFSDir::Search of a directory and inside Name() of one of
\* its children
InChildName(t) ==
    LET T == threads[t]
    IN  /\ T.pc \in {"probeName", "compareName"}
        /\ T.CurDir \in Held(t)
        /\ \A n \in Held(t) \ {T.CurDir} :
              \E k \in 1..Len(heap[T.CurDir].childs) : heap[T.CurDir].childs[k] = n

SortedUnique(h, d) ==
    \A k \in 1..(Len(h[d].childs) - 1) :
       StrLess(h[h[d].childs[k]].name, h[h[d].childs[k + 1]].name)

\* what a scan of all the children of d finds for Name
LinearScan(h, d, Name) ==
    LET found == {k \in 1..Len(h[d].childs) : h[h[d].childs[k]].name = Name}
    IN  IF found = {} THEN Null ELSE h[d].childs[CHOOSE k \in found : TRUE]

SearchCase == last.op = "Search" /\ SortedUnique(last.pre, last.args[1])

\* C31: on a directory whose children are in ascending order with no name
\* twice, Search(Name) returns the child a scan of all children finds, and
\* nothing when the scan finds none, for every number of children from 0.
C31_SearchIsLinearScan ==
    SearchCase => last.ret = LinearScan(last.pre, last.args[1], last.args[2])

\* a name below that of the first of three or more children: the window of
\* the binary search ends at End = (size_t)-1 and nothing is found
C31_Witness ==
    /\ SearchCase
    /\ Len(last.pre[Root].childs) >= 3
    /\ StrLess(last.args[2], last.pre[last.pre[Root].childs[1]].name)
    /\ last.ret = Null

====
